---- MODULE Spec2Model ----
(***************************************************************************)
(* Cycle-accurate model of the SHA3 TxPoW accelerator:                     *)
(*   KeccakDatapath      (src/keccak_datapath_simd.py)                     *)
(*   SHA3TxPoWController (src/sha3_txpow_controller.py)                    *)
(*   CountLeadingZeros   (src/CountLeadingZero/clz_module.py)              *)
(*                                                                         *)
(* One step of Next is one rising clock edge.  Every register of the       *)
(* design is a variable; combinational signals are operators over the      *)
(* registers.  Data is kept at byte granularity: a 64-bit word is a        *)
(* sequence of 8 bytes, low byte first as in the source, and a 1088-bit    *)
(* block is a sequence of 17 words, word 0 first.                          *)
(***************************************************************************)
EXTENDS Integers, Sequences, FiniteSets, TLC

\* ------------------------------------------------------------------------
\* Program constants
\* ------------------------------------------------------------------------
RATE_WORDS == 17
WORD_BYTES == 8
BLOCK_SIZE_BYTES == 136
HEADER_SIZE_BYTES == 2176
MAX_BLOCKS == 16
NONCE_FIELD_BYTE_SIZE == 34
NONCE_DATA_FIELD_BYTE_SIZE == 32
NONCE_DATA_FIELD_OVERWRITE_SIZE == 30
MAX_DIFFICULTY_BITS == 256
no_cores == 2
\* completion_status = Signal(2): two bits
COMPLETION_STATUS_BITS == 2
\* block_addr, loop_counter, total_blocks = Signal(max=MAX_BLOCKS): four bits
BLOCK_COUNTER_BITS == 4
\* first byte of block 0 covered by the nonce mask: NONCE_START_BIT / 8
NONCE_START_BYTE == NONCE_FIELD_BYTE_SIZE - NONCE_DATA_FIELD_OVERWRITE_SIZE

\* ------------------------------------------------------------------------
\* Bounds of the model
\* ------------------------------------------------------------------------
\* timeout_counter is a 32-bit register in the source; the model keeps the
\* wrap-around but at this width, and runs with limits below 2^7.
TimeoutCounterBits == 7
\* nonce_0 is not advanced past this value (caps the length of a session).
MaxNonce == 3

\* ------------------------------------------------------------------------
\* Bytes, words, blocks
\* ------------------------------------------------------------------------
Bit(x, k) == (x \div (2 ^ k)) % 2

ByteOf(b) == b[0] + 2 * b[1] + 4 * b[2] + 8 * b[3]
             + 16 * b[4] + 32 * b[5] + 64 * b[6] + 128 * b[7]

ByteXor(a, b) ==
  IF b = 0 THEN a ELSE IF a = 0 THEN b
  ELSE ByteOf([k \in 0..7 |-> (Bit(a, k) + Bit(b, k)) % 2])
ByteAnd(a, b) ==
  IF a = 0 \/ b = 0 THEN 0 ELSE IF b = 255 THEN a
  ELSE ByteOf([k \in 0..7 |-> Bit(a, k) * Bit(b, k)])
ByteOr(a, b) ==
  IF b = 0 THEN a ELSE IF a = 0 THEN b
  ELSE ByteOf([k \in 0..7 |-> IF Bit(a, k) + Bit(b, k) > 0 THEN 1 ELSE 0])

SeqXor(a, b) == [i \in 1..Len(a) |-> ByteXor(a[i], b[i])]
SeqAnd(a, b) == [i \in 1..Len(a) |-> ByteAnd(a[i], b[i])]
SeqOr(a, b)  == [i \in 1..Len(a) |-> ByteOr(a[i], b[i])]

Zeros(n) == [i \in 1..n |-> 0]

ZeroBlock == [i \in 1..RATE_WORDS |-> Zeros(WORD_BYTES)]

\* word i (0-based) of a block: block[i*64 : (i+1)*64]
WordOf(block, i) == block[i + 1]

\* byte g (0-based) of a block: block[g*8 : (g+1)*8]
ByteOfBlock(block, g) == block[(g \div WORD_BYTES) + 1][(g % WORD_BYTES) + 1]

\* bytes from..to (0-based, inclusive) of a block as one sequence
BytesOfBlock(block, from, to) == [j \in 1..(to - from + 1) |-> ByteOfBlock(block, from + j - 1)]

BlockXor(a, b) == [i \in 1..RATE_WORDS |-> SeqXor(a[i], b[i])]

\* ------------------------------------------------------------------------
\* 1. Dynamic block calculator (keccak_datapath_simd.py, lines 104-116)
\* ------------------------------------------------------------------------
\* If(len < 136, 1).Elif(len < 272, 2) ... .Else(MAX_BLOCKS), assigned to a
\* Signal(max=MAX_BLOCKS), which holds BLOCK_COUNTER_BITS bits.
block_calc(len) ==
  LET fits == {b \in 0..(MAX_BLOCKS - 1) : len < (b + 1) * BLOCK_SIZE_BYTES}
      first == CHOOSE b \in fits : \A c \in fits : b <= c
  IN IF fits = {} THEN MAX_BLOCKS ELSE first + 1

total_blocks_of(len) == block_calc(len) % (2 ^ BLOCK_COUNTER_BITS)

\* ------------------------------------------------------------------------
\* 3. LUT padding logic (keccak_datapath_simd.py, lines 133-223)
\* ------------------------------------------------------------------------
clear_masks == <<
  <<0, 0, 0, 0, 0, 0, 0, 0>>,
  <<255, 0, 0, 0, 0, 0, 0, 0>>,
  <<255, 255, 0, 0, 0, 0, 0, 0>>,
  <<255, 255, 255, 0, 0, 0, 0, 0>>,
  <<255, 255, 255, 255, 0, 0, 0, 0>>,
  <<255, 255, 255, 255, 255, 0, 0, 0>>,
  <<255, 255, 255, 255, 255, 255, 0, 0>>,
  <<255, 255, 255, 255, 255, 255, 255, 0>> >>

set_06_masks == <<
  <<6, 0, 0, 0, 0, 0, 0, 0>>,
  <<0, 6, 0, 0, 0, 0, 0, 0>>,
  <<0, 0, 6, 0, 0, 0, 0, 0>>,
  <<0, 0, 0, 6, 0, 0, 0, 0>>,
  <<0, 0, 0, 0, 6, 0, 0, 0>>,
  <<0, 0, 0, 0, 0, 6, 0, 0>>,
  <<0, 0, 0, 0, 0, 0, 6, 0>>,
  <<0, 0, 0, 0, 0, 0, 0, 6>> >>

pad_set_80 == <<0, 0, 0, 0, 0, 0, 0, 128>>

\* faulty variant: no collision case, the pad-start word never gets 0x80
word_out_no_collision(raw_word, i, baddr, len) ==
  LET pad_word_global_idx == len \div 8
      pad_byte_in_word == len % 8
      pad_clear_mask == clear_masks[pad_byte_in_word + 1]
      pad_set_06 == set_06_masks[pad_byte_in_word + 1]
      last_word_of_message_idx == (total_blocks_of(len) * 17) - 1
      global_word_idx == (baddr * 17) + i
  IN  IF global_word_idx = pad_word_global_idx
        THEN SeqOr(SeqAnd(raw_word, pad_clear_mask), pad_set_06)
      ELSE IF global_word_idx = last_word_of_message_idx
        THEN pad_set_80
      ELSE IF global_word_idx > pad_word_global_idx
        THEN Zeros(WORD_BYTES)
      ELSE raw_word

\* word i of the padded block, from word i of the registered raw block
word_out(raw_word, i, baddr, len) ==
  LET pad_word_global_idx == len \div 8
      pad_byte_in_word == len % 8
      pad_clear_mask == clear_masks[pad_byte_in_word + 1]
      pad_set_06 == set_06_masks[pad_byte_in_word + 1]
      last_word_of_message_idx == (total_blocks_of(len) * 17) - 1
      global_word_idx == (baddr * 17) + i
      is_pad_start_word == (global_word_idx = pad_word_global_idx)
      is_msg_end_word == (global_word_idx = last_word_of_message_idx)
      is_after_pad == (global_word_idx > pad_word_global_idx)
  IN  IF is_pad_start_word /\ is_msg_end_word
        THEN SeqOr(SeqOr(SeqAnd(raw_word, pad_clear_mask), pad_set_06), pad_set_80)
      ELSE IF is_pad_start_word
        THEN SeqOr(SeqAnd(raw_word, pad_clear_mask), pad_set_06)
      ELSE IF is_msg_end_word
        THEN pad_set_80
      ELSE IF is_after_pad
        THEN Zeros(WORD_BYTES)
      ELSE raw_word

padded_block(raw, baddr, len) ==
  [i \in 1..RATE_WORDS |-> word_out(WordOf(raw, i - 1), i - 1, baddr, len)]

\* Cat(current_block_padded, Constant(0, 512)): the rate part of the 1600-bit
\* value; the 64 capacity bytes are zero and are not carried in the model.
padded_slice_extended(padded) == padded

\* ------------------------------------------------------------------------
\* Nonce masks (keccak_datapath_simd.py, lines 234-266)
\* ------------------------------------------------------------------------
\* Cat(Constant(0, NONCE_START_BIT), masked_nonce, Constant(0, ...)) when
\* block_addr = 0, else 0.  A nonce is a sequence of 30 bytes, low byte first.
nonce_mask(nonce, baddr) ==
  IF baddr = 0
    THEN [i \in 1..RATE_WORDS |-> [j \in 1..WORD_BYTES |->
            LET g == (i - 1) * WORD_BYTES + (j - 1)
            IN IF g >= NONCE_START_BYTE
                  /\ g < NONCE_START_BYTE + NONCE_DATA_FIELD_OVERWRITE_SIZE
                 THEN nonce[g - NONCE_START_BYTE + 1]
                 ELSE 0]]
    ELSE ZeroBlock

\* an integer below 65536 as a 30-byte nonce register value
NonceOfInt(n) ==
  [j \in 1..NONCE_DATA_FIELD_OVERWRITE_SIZE |->
     IF j = 1 THEN n % 256 ELSE IF j = 2 THEN (n \div 256) % 256 ELSE 0]

RECURSIVE IncBytes(_, _)
\* nonce + 1 in NONCE_WIDTH_BITS bits: add one at byte j, carrying upwards
IncBytes(v, j) ==
  IF j > Len(v) THEN v
  ELSE IF v[j] < 255 THEN [v EXCEPT ![j] = v[j] + 1]
  ELSE IncBytes([v EXCEPT ![j] = 0], j + 1)

\* faulty variant: lane 0 steps its nonce by two
nonce_plus_2(nonce) == IncBytes(IncBytes(nonce, 1), 1)

nonce_plus_1(nonce) == IncBytes(nonce, 1)

\* ------------------------------------------------------------------------
\* Lane states and the permutation core (keccak_core.py)
\* ------------------------------------------------------------------------
\* A 1600-bit lane state is carried as the expression that computes it from
\* the zero state: a sequence of entries, each the rate data XORed in and
\* the round constants (by index into KECCAK_ROUND_CONSTANTS) applied after
\* it, in order.  One KeccakCore evaluation is a bijection of the state for
\* a given round constant, so equal expressions denote equal states.
ZeroState == << >>

\* state ^ data
state_xor(state, data) ==
  IF state # << >> /\ state[Len(state)].rounds = << >>
    THEN [state EXCEPT ![Len(state)].absorbed = BlockXor(@, data)]
    ELSE Append(state, [absorbed |-> data, rounds |-> << >>])

\* Cat(*core.iota_out) with step_input = state, round_const = round_consts[r]
iota_out(state, r) ==
  IF state = << >>
    THEN <<[absorbed |-> ZeroBlock, rounds |-> <<r>>]>>
    ELSE [state EXCEPT ![Len(state)].rounds = Append(@, r)]

Mix(h, v) == (h * 31 + v + 7) % 65521

MixWord(h, w) ==
  Mix(Mix(Mix(Mix(Mix(Mix(Mix(Mix(h, w[1]), w[2]), w[3]), w[4]), w[5]), w[6]), w[7]), w[8])

\* the folds below run Mix over a sequence from position i on, starting
\* from h; f[acc, k] continues from position k with the value acc
MixSeq(h, s, i) ==
  LET f[acc \in Nat, k \in Nat] ==
        IF k > Len(s) THEN acc ELSE f[Mix(acc, s[k]), k + 1]
  IN f[h, i]

MixBlock(h, block, i) ==
  LET f[acc \in Nat, k \in Nat] ==
        IF k > Len(block) THEN acc ELSE f[MixWord(acc, block[k]), k + 1]
  IN f[h, i]

StateSum(h, state, i) ==
  LET f[acc \in Nat, k \in Nat] ==
        IF k > Len(state) THEN acc
        ELSE f[MixSeq(MixBlock(acc, state[k].absorbed, 1), state[k].rounds, 1), k + 1]
  IN f[h, i]

\* state[0:MAX_DIFFICULTY_BITS]: the low 32 bytes of a lane state.  For the
\* zero state and for a state that is plain absorbed data these are the data
\* bytes; for a permuted state they are a fixed function of the expression.
raw_hash(state) ==
  IF state = << >> THEN Zeros(MAX_DIFFICULTY_BITS \div 8)
  ELSE IF Len(state) = 1 /\ state[1].rounds = << >>
    THEN BytesOfBlock(state[1].absorbed, 0, (MAX_DIFFICULTY_BITS \div 8) - 1)
  ELSE LET h == StateSum(1, state, 1)
       IN [i \in 1..(MAX_DIFFICULTY_BITS \div 8) |->
             (h * i + (i - 1) * (h \div 251)) % 256]

\* state_0[0:NONCE_WIDTH_BITS]
state_low_nonce_bits(state) ==
  SubSeq(raw_hash(state), 1, NONCE_DATA_FIELD_OVERWRITE_SIZE)

\* ------------------------------------------------------------------------
\* CountLeadingZeros (CountLeadingZero/clz_module.py)
\* ------------------------------------------------------------------------
\* the 256 input bits, bit 0 first
BitsOfBytes(bytes) == [j \in 1..(Len(bytes) * 8) |->
                         Bit(bytes[((j - 1) \div 8) + 1], (j - 1) % 8)]

\* faulty variant: no reversal of the bits inside a byte
reversed_input_unswizzled(bits) == bits

\* Part 1: reversed_input[base + bit_idx] = i[base + (7 - bit_idx)]
reversed_input(bits) ==
  [j \in 1..Len(bits) |->
     LET base == ((j - 1) \div 8) * 8
         bit_idx == (j - 1) % 8
     IN bits[base + (7 - bit_idx) + 1]]

\* Part 2: one stage per block size 128, 64, ..., 1; stage[data, offset,
\* size] is the stage of block size `size` on the data it is handed
clz_stage(current_data, current_offset, block_size) ==
  LET stage[data \in Seq({0, 1}), offset \in Nat, size \in Nat] ==
        IF size = 0 THEN offset
        ELSE LET low_part == SubSeq(data, 1, size)
                 high_part == SubSeq(data, size + 1, Len(data))
                 low_all_zeros == \A j \in 1..size : data[j] = 0
             IN IF low_all_zeros
                  THEN stage[high_part, offset + size, size \div 2]
                  ELSE stage[low_part, offset, size \div 2]
  IN stage[current_data, current_offset, block_size]

\* Part 3: the output, with the all-zero edge case
CountLeadingZeros(bytes) ==
  LET o[i \in Seq(0..255)] ==
        LET width == Len(i) * 8
            all_zeros == \A j \in 1..Len(i) : i[j] = 0
        IN IF all_zeros THEN width
           ELSE clz_stage(reversed_input(BitsOfBytes(i)), 0, width \div 2)
  IN o[bytes]

\* ------------------------------------------------------------------------
\* State
\* ------------------------------------------------------------------------
VARIABLES
  start, stop,           \* _control.storage[0], _control.storage[1]
  input_length,          \* _input_len.storage
  target_clz,            \* _target_clz.storage
  timeout_storage,       \* _timeout.storage, eight bytes, low byte first
  attempt_limit,         \* _attempt_limit.storage
  mem_banks,             \* 17 banks of 16 words: bank -> row -> word
  dma_enable,            \* dma._enable.storage
  dma_enable_d,          \* dma_enable one cycle ago
  dma_write_addr,        \* write pointer of the DMA path
  dma_source_valid,      \* dma.source.valid
  dma_source_data,       \* dma.source.data
  header_we,             \* _header_we.storage
  header_addr,           \* _header_addr.storage
  combined_header,       \* Cat(_header_data_low.storage, _header_data_high.storage)
  header_data,           \* Cat of the 17 bank read ports' dat_r
  current_raw_block,     \* pipeline register of header_data
  fsm_state,
  block_addr, loop_counter, round_index,
  timeout_counter, attempts_counter,
  completion_status,
  nonce_0, nonce_1, nonce_result,
  state_0, state_1,
  last_hash              \* controller's latch of the winning digest

inputs == <<start, stop>>
config == <<input_length, target_clz, timeout_storage, attempt_limit>>
header_port == <<dma_enable, dma_source_valid, dma_source_data,
                 header_we, header_addr, combined_header>>
header_store == <<mem_banks, dma_enable_d, dma_write_addr>>
pipeline == <<header_data, current_raw_block>>
regs == <<fsm_state, block_addr, loop_counter, round_index, timeout_counter,
          attempts_counter, completion_status, nonce_0, nonce_1, nonce_result,
          state_0, state_1, last_hash>>
vars == <<inputs, config, header_port, header_store, pipeline, regs>>

\* ------------------------------------------------------------------------
\* The timeout register and the limit the datapath sees
\* (sha3_txpow_controller.py, lines 74 and 233; keccak_datapath_simd.py,
\* line 47)
\* ------------------------------------------------------------------------
\* _timeout = CSRStorage(64)
TIMEOUT_CSR_BITS == 64
TIMEOUT_CSR_BYTES == TIMEOUT_CSR_BITS \div 8
\* timeout_limit = Signal(32)
TIMEOUT_LIMIT_BITS == 32
TIMEOUT_LIMIT_BYTES == TIMEOUT_LIMIT_BITS \div 8

\* the register value the host writes for a limit of n cycles, n below 2^16,
\* with the number high in the upper 32 bits
timeout_csr(n, high) ==
  [j \in 1..TIMEOUT_CSR_BYTES |->
     IF j = 1 THEN n % 256
     ELSE IF j = 2 THEN (n \div 256) % 256
     ELSE IF j = TIMEOUT_LIMIT_BYTES + 1 THEN high
     ELSE 0]

\* the number held by bytes, low byte first
bytes_value(bytes) ==
  LET f[k \in 0..Len(bytes)] ==
        IF k = 0 THEN 0 ELSE bytes[Len(bytes) - k + 1] + 256 * f[k - 1]
  IN f[Len(bytes)]

\* self.miner.timeout_limit.eq(self._timeout.storage): the 32-bit signal
\* takes the low 32 bits of the register
timeout_limit_of(storage) == bytes_value(SubSeq(storage, 1, TIMEOUT_LIMIT_BYTES))

timeout_limit == timeout_limit_of(timeout_storage)

\* ------------------------------------------------------------------------
\* Header images and configurations the sessions are run with
\* ------------------------------------------------------------------------
InputLengths == {100, 300}
Targets == {0, 1, 2, 300}
TimeoutLimits == {0, 30}
AttemptLimits == {0, 2}


\* A 64-bit word held by the memory or the read pipeline is named by the
\* linear word address of the host's header image it was loaded from; its
\* eight bytes are HostWord of that address.

\* byte a of the host's image: scale and length bytes, two bytes in front of
\* the nonce, the nonce field cleared by the host, then data; behind the
\* header whatever an older, longer image left there
HeaderByte(len, a) ==
  IF a >= len THEN 238
  ELSE IF a = 0 THEN 1
  ELSE IF a = 1 THEN 32
  ELSE IF a < NONCE_START_BYTE THEN 192 + a
  ELSE IF a < NONCE_FIELD_BYTE_SIZE THEN 0
  ELSE (a % 251) + 1

HostWord(w) == [j \in 1..WORD_BYTES |-> HeaderByte(input_length, w * WORD_BYTES + j - 1)]

\* the 64-bit values of a block of 17 stored words
BlockData(block) == [i \in 1..RATE_WORDS |-> HostWord(block[i])]

\* linear word address a is held by bank a % 17 at row a \div 17
HeaderBanks ==
  [k \in 0..(RATE_WORDS - 1) |-> [r \in 0..(MAX_BLOCKS - 1) |-> k + 17 * r]]

\* Cat(*[bank_read_ports[k].dat_r]) after the ports sampled address adr
ReadBanks(banks, adr) == [k \in 1..RATE_WORDS |-> banks[k - 1][adr]]

\* block b of the header as the memory holds it
HeaderBlock(b) == ReadBanks(mem_banks, b)

\* ------------------------------------------------------------------------
\* Header storage write logic (sha3_txpow_controller.py, lines 137-215)
\* ------------------------------------------------------------------------
\* HEADER_WORDS = HEADER_SIZE_BYTES // WORD_BYTES
HEADER_WORDS == HEADER_SIZE_BYTES \div WORD_BYTES
\* addr_width = int(math.ceil(math.log2(HEADER_WORDS)))
addr_width == CHOOSE w \in 0..16 : 2 ^ w >= HEADER_WORDS /\ 2 ^ (w - 1) < HEADER_WORDS

\* dma_enable_rising.eq(~dma_enable_d & self.dma._enable.storage)
dma_enable_rising == ~dma_enable_d /\ dma_enable

\* self.dma.source.ready.eq(self.dma._enable.storage)
dma_source_ready == dma_enable

\* faulty variant: the register interface's write enable holds the DMA off
write_select_dma_after_csr == dma_source_valid /\ dma_source_ready /\ ~header_we

\* If(self.dma.source.valid & self.dma.source.ready, ...): priority 1
write_select_dma == dma_source_valid /\ dma_source_ready

write_addr ==
  IF write_select_dma THEN dma_write_addr
  ELSE IF header_we THEN header_addr
  ELSE 0

write_data ==
  IF write_select_dma THEN dma_source_data
  ELSE IF header_we THEN combined_header
  ELSE 0

write_enable == write_select_dma \/ header_we

\* faulty variant: the banks take the addresses in strides of 16
addresses_for_bank_k_stride_16(k) == {k + (16 * n) : n \in 0..15}

\* addresses_for_bank_k = [k + (17 * n) for n in range(16)]
addresses_for_bank_k(k) == {k + (17 * n) : n \in 0..15}

bank_is_selected(k) == write_addr \in addresses_for_bank_k(k)

\* Case(write_addr, bank_addr_cases): the row of bank k an address decodes
\* to; the port's address rests at 0 when no case matches
bank_write_port_adr(k, addr) ==
  IF \E row_idx \in 0..(MAX_BLOCKS - 1) : k + (17 * row_idx) = addr
    THEN CHOOSE row_idx \in 0..(MAX_BLOCKS - 1) : k + (17 * row_idx) = addr
    ELSE 0

\* bank_write_ports[k].we.eq(write_enable & bank_is_selected)
bank_write_port_we(k) == write_enable /\ bank_is_selected(k)

\* the banks after the clock edge
mem_banks_next ==
  [k \in 0..(RATE_WORDS - 1) |->
     IF bank_write_port_we(k)
       THEN [mem_banks[k] EXCEPT ![bank_write_port_adr(k, write_addr)] = write_data]
       ELSE mem_banks[k]]

\* If(dma_enable_rising, dma_write_addr.eq(0))
\* .Elif(valid & ready, dma_write_addr.eq(dma_write_addr + 1))
dma_write_addr_next ==
  IF dma_enable_rising THEN 0
  ELSE IF dma_source_valid /\ dma_source_ready
    THEN (dma_write_addr + 1) % (2 ^ addr_width)
  ELSE dma_write_addr

HeaderWriteLogic ==
  /\ mem_banks' = mem_banks_next
  /\ dma_enable_d' = dma_enable
  /\ dma_write_addr' = dma_write_addr_next

\* DMA disabled and write enable low
HeaderPortQuiet ==
  /\ dma_enable = FALSE
  /\ dma_enable_d = FALSE
  /\ dma_write_addr = 0
  /\ dma_source_valid = FALSE
  /\ dma_source_data = 0
  /\ header_we = FALSE
  /\ header_addr = 0
  /\ combined_header = 0

\* the host loads the header before a search and leaves it alone after
HostLeavesHeader == UNCHANGED header_port

\* ------------------------------------------------------------------------
\* Combinational signals
\* ------------------------------------------------------------------------
total_blocks == total_blocks_of(input_length)

current_block_padded == padded_block(BlockData(current_raw_block), block_addr, input_length)

nonce_mask_0 == nonce_mask(nonce_0, block_addr)
nonce_mask_1 == nonce_mask(nonce_1, block_addr)

raw_hash_0 == raw_hash(state_0)
raw_hash_1 == raw_hash(state_1)
clz_0_out == CountLeadingZeros(raw_hash_0)
clz_1_out == CountLeadingZeros(raw_hash_1)

\* faulty variant: running stays asserted through DONE
running_until_idle == fsm_state # "IDLE"

running == fsm_state \in {"INIT_HASH", "ABSORB", "PERMUTE", "CHECK_RESULT"}
idle == fsm_state = "IDLE"
\* DONE drives the outputs from the stored completion status
found == IF fsm_state = "DONE" /\ completion_status = 1 THEN 1
         ELSE IF fsm_state = "DONE" /\ completion_status = 2 THEN 2
         ELSE 0
timeout == fsm_state = "DONE" /\ completion_status = 3
no_attempts == fsm_state = "DONE" /\ completion_status = 4

\* controller status register: [0:Idle, 1:Running, 2:Found, 3:Timeout, 4:NoAttempt]
status ==
  <<idle, running, (completion_status = 1) \/ (completion_status = 2),
    completion_status = 3, completion_status = 4>>

\* ------------------------------------------------------------------------
\* Initial state: header loaded, configuration written, controller idle
\* with block 0 already through the read pipeline
\* ------------------------------------------------------------------------
InitWithTimeoutCsr(lengths, targets, storages, attempts) ==
  /\ start = FALSE
  /\ stop = FALSE
  /\ input_length \in lengths
  /\ target_clz \in targets
  /\ timeout_storage \in storages
  /\ attempt_limit \in attempts
  /\ mem_banks = HeaderBanks
  /\ HeaderPortQuiet
  /\ header_data = ReadBanks(mem_banks, 0)
  /\ current_raw_block = ReadBanks(mem_banks, 0)
  /\ fsm_state = "IDLE"
  /\ block_addr = 0
  /\ loop_counter = 0
  /\ round_index = 0
  /\ timeout_counter = 0
  /\ attempts_counter = 0
  /\ completion_status = 0
  /\ nonce_0 = NonceOfInt(1)
  /\ nonce_1 = NonceOfInt(0)
  /\ nonce_result = Zeros(NONCE_DATA_FIELD_BYTE_SIZE)
  /\ state_0 = ZeroState
  /\ state_1 = ZeroState
  /\ last_hash = Zeros(MAX_DIFFICULTY_BITS \div 8)

\* the host writes limits that fit the low 32 bits
InitWith(lengths, targets, timeouts, attempts) ==
  InitWithTimeoutCsr(lengths, targets, {timeout_csr(n, 0) : n \in timeouts}, attempts)

Init == InitWith(InputLengths, Targets, TimeoutLimits, AttemptLimits)

\* ------------------------------------------------------------------------
\* What every clock edge does, whatever the FSM state
\* ------------------------------------------------------------------------
\* the host may rewrite the control register at any time
HostDrivesControl == start' \in BOOLEAN /\ stop' \in BOOLEAN

\* synchronous bank read ports, then the datapath's input register
ReadPipeline ==
  /\ header_data' = ReadBanks(mem_banks, block_addr)
  /\ current_raw_block' = header_data

\* self.sync: If(running, timeout_counter.eq(timeout_counter + 1))
timeout_counter_plus_1 == (timeout_counter + 1) % (2 ^ TimeoutCounterBits)

\* faulty variant: the latch takes lane 0's digest for either find
last_hash_next_lane_0 ==
  IF completion_status \in {1, 2} THEN raw_hash_0 ELSE last_hash

\* controller: latch the digest while completion_status is 1 or 2
last_hash_next ==
  IF completion_status = 1 THEN raw_hash_0
  ELSE IF completion_status = 2 THEN raw_hash_1
  ELSE last_hash

EveryCycle ==
  /\ ReadPipeline
  /\ last_hash' = last_hash_next
  /\ UNCHANGED config
  /\ HeaderWriteLogic
  /\ HostLeavesHeader
  /\ HostDrivesControl

\* ------------------------------------------------------------------------
\* 4. FSM (keccak_datapath_simd.py, lines 328-465)
\* ------------------------------------------------------------------------
\* a value assigned to completion_status keeps the register's bits
completion_status_value(v) == v % (2 ^ COMPLETION_STATUS_BITS)

\* the nonce registers hold small values while nonce_0 counts; this reads
\* the low two bytes back as a number
NonceLow(nonce) == nonce[1] + 256 * nonce[2]

\* NextState of IDLE: If(self.start, ... NextState("INIT_HASH"))
idle_next_state == IF start THEN "INIT_HASH" ELSE "IDLE"

\* faulty variant: a start keeps the nonces and the attempt counter of the
\* previous session
Idle_keeps_session ==
  /\ fsm_state = "IDLE"
  /\ block_addr' = 0
  /\ IF start
       THEN /\ completion_status' = 0
            /\ timeout_counter' = 0
            /\ UNCHANGED <<attempts_counter, nonce_0, nonce_1>>
       ELSE UNCHANGED <<completion_status, timeout_counter, attempts_counter,
                        nonce_0, nonce_1>>
  /\ fsm_state' = idle_next_state
  /\ UNCHANGED <<loop_counter, round_index, nonce_result, state_0, state_1>>
  /\ EveryCycle

\* faulty variant: a start clears the result nonce with the status
Idle_clears_result ==
  /\ fsm_state = "IDLE"
  /\ block_addr' = 0
  /\ IF start
       THEN /\ completion_status' = 0
            /\ timeout_counter' = 0
            /\ attempts_counter' = 0
            /\ nonce_0' = NonceOfInt(1)
            /\ nonce_1' = NonceOfInt(0)
            /\ nonce_result' = Zeros(NONCE_DATA_FIELD_BYTE_SIZE)
       ELSE UNCHANGED <<completion_status, timeout_counter, attempts_counter,
                        nonce_0, nonce_1, nonce_result>>
  /\ fsm_state' = idle_next_state
  /\ UNCHANGED <<loop_counter, round_index, state_0, state_1>>
  /\ EveryCycle

Idle ==
  /\ fsm_state = "IDLE"
  /\ block_addr' = 0
  /\ IF start
       THEN /\ completion_status' = 0
            /\ timeout_counter' = 0
            /\ attempts_counter' = 0
            /\ nonce_0' = NonceOfInt(1)
            /\ nonce_1' = NonceOfInt(0)
       ELSE UNCHANGED <<completion_status, timeout_counter, attempts_counter,
                        nonce_0, nonce_1>>
  /\ fsm_state' = idle_next_state
  /\ UNCHANGED <<loop_counter, round_index, nonce_result, state_0, state_1>>
  /\ EveryCycle

InitHash ==
  /\ fsm_state = "INIT_HASH"
  /\ state_0' = ZeroState
  /\ state_1' = ZeroState
  /\ loop_counter' = 0
  /\ fsm_state' = "ABSORB"
  /\ timeout_counter' = timeout_counter_plus_1
  /\ UNCHANGED <<block_addr, round_index, attempts_counter, completion_status,
                 nonce_0, nonce_1, nonce_result>>
  /\ EveryCycle

\* what lane 0 / lane 1 XOR into their state in ABSORB
absorb_data_0 == BlockXor(padded_slice_extended(current_block_padded), nonce_mask_0)
absorb_data_1 == BlockXor(padded_slice_extended(current_block_padded), nonce_mask_1)

Absorb ==
  /\ fsm_state = "ABSORB"
  /\ state_0' = state_xor(state_0, absorb_data_0)
  /\ state_1' = state_xor(state_1, absorb_data_1)
  /\ round_index' = 0
  /\ fsm_state' = "PERMUTE"
  /\ timeout_counter' = timeout_counter_plus_1
  /\ UNCHANGED <<block_addr, loop_counter, attempts_counter, completion_status,
                 nonce_0, nonce_1, nonce_result>>
  /\ EveryCycle

\* total_blocks - 1.  When total_blocks is 0 the difference is -1 in Migen's
\* integer arithmetic and 15 in the 4-bit unsigned arithmetic of the
\* generated netlist; both outcomes are kept.
total_blocks_minus_1 ==
  IF total_blocks = 0
    THEN {-1, (2 ^ BLOCK_COUNTER_BITS) - 1}
    ELSE {total_blocks - 1}

\* early increment: at round 0, if another block follows
early_increment(last) == (round_index = 0) /\ (block_addr < last)

\* at round 23: another block to absorb
more_blocks == (loop_counter + 1) < total_blocks

\* faulty variant: the rounds go on only while start is held
permute_next_state_start_gated ==
  IF ~start THEN "IDLE"
  ELSE IF round_index = 23
    THEN IF more_blocks THEN "ABSORB" ELSE "CHECK_RESULT"
    ELSE "PERMUTE"

\* NextState of PERMUTE
permute_next_state ==
  IF round_index = 23
    THEN IF more_blocks THEN "ABSORB" ELSE "CHECK_RESULT"
    ELSE "PERMUTE"

Permute ==
  /\ fsm_state = "PERMUTE"
  /\ state_0' = iota_out(state_0, round_index)
  /\ state_1' = iota_out(state_1, round_index)
  /\ \E last \in total_blocks_minus_1 :
       block_addr' = IF early_increment(last) THEN block_addr + 1 ELSE block_addr
  /\ fsm_state' = permute_next_state
  /\ loop_counter' = IF round_index = 23 /\ more_blocks
                        THEN loop_counter + 1 ELSE loop_counter
  /\ round_index' = IF round_index = 23 THEN round_index ELSE round_index + 1
  /\ timeout_counter' = timeout_counter_plus_1
  /\ UNCHANGED <<attempts_counter, completion_status, nonce_0, nonce_1, nonce_result>>
  /\ EveryCycle

\* faulty variant: the limit compared with the number of CHECK_RESULT visits
timeout_fired_by_visits ==
  (timeout_limit # 0) /\ (attempts_counter \div no_cores + 1 >= timeout_limit)

\* (timeout_limit != 0) & (timeout_counter >= timeout_limit)
timeout_fired == (timeout_limit # 0) /\ (timeout_counter >= timeout_limit)
\* faulty variant: a limit of zero is compared like any other
attempts_fired_zero_enabled == attempts_counter >= attempt_limit

\* (attempt_limit != 0) & (attempts_counter >= attempt_limit)
attempts_fired == (attempt_limit # 0) /\ (attempts_counter >= attempt_limit)
\* faulty variant: lane 0 has to beat the target, a tie is passed to lane 1
hash0_lt_target_strict == clz_0_out > target_clz

hash0_lt_target == clz_0_out >= target_clz
hash1_lt_target == clz_1_out >= target_clz

\* faulty variant: lane 1 examined before lane 0
check_result_branch_lane1_first ==
  IF timeout_fired THEN "TIMEOUT"
  ELSE IF attempts_fired THEN "NO_ATTEMPT"
  ELSE IF hash1_lt_target THEN "FOUND_1"
  ELSE IF hash0_lt_target THEN "FOUND_0"
  ELSE IF stop THEN "STOP"
  ELSE "NEXT_NONCE"

\* faulty variant: attempt limit examined before the timeout
check_result_branch_attempts_first ==
  IF attempts_fired THEN "NO_ATTEMPT"
  ELSE IF timeout_fired THEN "TIMEOUT"
  ELSE IF hash0_lt_target THEN "FOUND_0"
  ELSE IF hash1_lt_target THEN "FOUND_1"
  ELSE IF stop THEN "STOP"
  ELSE "NEXT_NONCE"

\* faulty variant: stop examined before the lanes' digests
check_result_branch_stop_first ==
  IF timeout_fired THEN "TIMEOUT"
  ELSE IF attempts_fired THEN "NO_ATTEMPT"
  ELSE IF stop THEN "STOP"
  ELSE IF hash0_lt_target THEN "FOUND_0"
  ELSE IF hash1_lt_target THEN "FOUND_1"
  ELSE "NEXT_NONCE"

\* the If/Elif chain of CHECK_RESULT: which branch is taken this cycle
check_result_branch ==
  IF timeout_fired THEN "TIMEOUT"
  ELSE IF attempts_fired THEN "NO_ATTEMPT"
  ELSE IF hash0_lt_target THEN "FOUND_0"
  ELSE IF hash1_lt_target THEN "FOUND_1"
  ELSE IF stop THEN "STOP"
  ELSE "NEXT_NONCE"

\* faulty variant: an unsuccessful pass counts one attempt for the two lanes
attempts_counter_plus_one == attempts_counter + 1

\* NextValue(self.attempts_counter, self.attempts_counter + self.no_cores)
attempts_counter_plus_no_cores == attempts_counter + no_cores

\* Cat(header_data[16:32], nonce)
nonce_result_of(nonce) == BytesOfBlock(BlockData(header_data), 2, 3) \o nonce

CheckResult ==
  /\ fsm_state = "CHECK_RESULT"
  /\ LET branch == check_result_branch IN
       CASE branch = "TIMEOUT" ->
              /\ completion_status' = completion_status_value(3)
              /\ fsm_state' = "DONE"
              /\ UNCHANGED <<nonce_result, nonce_0, nonce_1, attempts_counter, block_addr>>
         [] branch = "NO_ATTEMPT" ->
              /\ completion_status' = completion_status_value(4)
              /\ fsm_state' = "DONE"
              /\ UNCHANGED <<nonce_result, nonce_0, nonce_1, attempts_counter, block_addr>>
         [] branch = "FOUND_0" ->
              /\ nonce_result' = nonce_result_of(nonce_0)
              /\ completion_status' = completion_status_value(1)
              /\ fsm_state' = "DONE"
              /\ UNCHANGED <<nonce_0, nonce_1, attempts_counter, block_addr>>
         [] branch = "FOUND_1" ->
              /\ nonce_result' = nonce_result_of(nonce_1)
              /\ completion_status' = completion_status_value(2)
              /\ fsm_state' = "DONE"
              /\ UNCHANGED <<nonce_0, nonce_1, attempts_counter, block_addr>>
         [] branch = "STOP" ->
              /\ fsm_state' = "IDLE"
              /\ UNCHANGED <<completion_status, nonce_result, nonce_0, nonce_1,
                             attempts_counter, block_addr>>
         [] branch = "NEXT_NONCE" ->
              /\ NonceLow(nonce_0) < MaxNonce
              /\ nonce_0' = nonce_plus_1(nonce_0)
              /\ nonce_1' = state_low_nonce_bits(state_0)
              /\ attempts_counter' = attempts_counter_plus_no_cores
              /\ block_addr' = 0
              /\ fsm_state' = "INIT_HASH"
              /\ UNCHANGED <<completion_status, nonce_result>>
  /\ timeout_counter' = timeout_counter_plus_1
  /\ UNCHANGED <<loop_counter, round_index, state_0, state_1>>
  /\ EveryCycle

\* faulty variant: DONE left without waiting for start to drop
done_next_state_no_handshake == "IDLE"

\* NextState of DONE: wait for the handshake
done_next_state == IF ~start THEN "IDLE" ELSE "DONE"

Done ==
  /\ fsm_state = "DONE"
  /\ fsm_state' = done_next_state
  /\ UNCHANGED <<block_addr, loop_counter, round_index, timeout_counter,
                 attempts_counter, completion_status, nonce_0, nonce_1,
                 nonce_result, state_0, state_1>>
  /\ EveryCycle

Next == Idle \/ InitHash \/ Absorb \/ Permute \/ CheckResult \/ Done

Spec == Init /\ [][Next]_vars

\* ------------------------------------------------------------------------
\* 5. Reference SHA3-256 sponge input (VerificationTest/sha3_function.py)
\* ------------------------------------------------------------------------
\* the message the reference hashes: the first input_length header bytes
\* with the lane's nonce written over bytes 4..33
message_byte(nonce, a) ==
  IF a >= NONCE_START_BYTE /\ a < NONCE_FIELD_BYTE_SIZE
    THEN nonce[a - NONCE_START_BYTE + 1]
    ELSE HeaderByte(input_length, a)

\* sha3_256_sw: full blocks are absorbed as they are; the final block is
\* the remaining bytes, 0x06 at their end, 0x80 OR-ed into the last byte
sha3_256_sw_block_byte(nonce, b, g) ==
  LET last == input_length \div BLOCK_SIZE_BYTES
      rest == input_length % BLOCK_SIZE_BYTES
      base == IF b < last \/ g < rest THEN message_byte(nonce, b * BLOCK_SIZE_BYTES + g)
              ELSE IF g = rest THEN 6
              ELSE 0
  IN IF b = last /\ g = BLOCK_SIZE_BYTES - 1 THEN ByteOr(base, 128) ELSE base

sha3_256_sw_block(nonce, b) ==
  [i \in 1..RATE_WORDS |->
     [j \in 1..WORD_BYTES |->
        sha3_256_sw_block_byte(nonce, b, (i - 1) * WORD_BYTES + (j - 1))]]

\* keccakf_sw runs rounds 0..23 after every absorbed block
keccakf_sw_rounds == [r \in 1..24 |-> r - 1]

\* the sponge state the reference holds when it squeezes the digest
sha3_256_sw_state(nonce) ==
  [b \in 1..(input_length \div BLOCK_SIZE_BYTES + 1) |->
     [absorbed |-> sha3_256_sw_block(nonce, b - 1), rounds |-> keccakf_sw_rounds]]

\* lengths at the padding boundaries, and one of four blocks
BoundaryLengths == {0, 1, 135, 136, 137, 271, 272, 273, 408}

InitBoundary == InitWith(BoundaryLengths, {2}, {0}, {0})

SpecBoundary == InitBoundary /\ [][Next]_vars

\* lengths at the capacity of the header buffer: 15 blocks, and past the
\* last threshold of the block calculator
CapacityLengths == {2039, 2040, HEADER_SIZE_BYTES}

InitCapacity == InitWith(CapacityLengths, {0, 300}, {0}, {0})

SpecCapacity == InitCapacity /\ [][Next]_vars

\* the datapath resting in IDLE while the host keeps start low: the block
\* calculator and the padder are combinational and follow input_length
IdleHeld == Idle /\ ~start'

InitInputLen == InitWith(0..HEADER_SIZE_BYTES, {0}, {0}, {0})

\* every input length the header buffer supports, the datapath idle
SpecInputLen == InitInputLen /\ [][IdleHeld]_vars

\* ------------------------------------------------------------------------
\* 6. Properties
\* ------------------------------------------------------------------------

\* C1: in every attempt the k-th ABSORB consumes header block k: the raw
\* block held by the input register is the stored block number loop_counter
C1_AbsorbUsesBlockK ==
  fsm_state = "ABSORB" =>
    BlockData(current_raw_block) = BlockData(HeaderBlock(loop_counter))

\* C2: when an attempt reaches CHECK_RESULT each lane has absorbed exactly
\* the pad10*1 padded message with its nonce in bytes 4..33, so its digest
\* is the reference SHA3-256 of that message
C2_LanesHashReferenceMessage ==
  fsm_state = "CHECK_RESULT" =>
    /\ state_0 = sha3_256_sw_state(nonce_0)
    /\ state_1 = sha3_256_sw_state(nonce_1)

\* C3: when the attempt limit fires at CHECK_RESULT the status latched for
\* DONE is the attempts-exhausted code 4, distinct from none, found-A,
\* found-B and timeout, and in DONE the no_attempts output and the
\* NoAttempt status bit are asserted
C3_AttemptLimitLatchesNoAttempt ==
  [][(fsm_state = "CHECK_RESULT" /\ ~timeout_fired /\ attempts_fired) =>
       /\ fsm_state' = "DONE"
       /\ completion_status' = 4
       /\ completion_status' \notin {0, 1, 2, 3}
       /\ no_attempts'
       /\ status'[5]]_vars

\* C4: at a CHECK_RESULT where a limit condition holds and a lane's digest
\* meets the target, the latched status is the limit's (3 for the timeout,
\* 4 for the attempt limit), not found, and nonce_result is not updated
C4_LimitBeatsFound ==
  [][(/\ fsm_state = "CHECK_RESULT"
      /\ timeout_fired \/ attempts_fired
      /\ hash0_lt_target \/ hash1_lt_target) =>
       /\ fsm_state' = "DONE"
       /\ completion_status' = (IF timeout_fired THEN 3 ELSE 4)
       /\ completion_status' \notin {1, 2}
       /\ nonce_result' = nonce_result]_vars

\* C5: when both lanes meet the target at the same CHECK_RESULT and no limit
\* fires, the latched status is found-A (1) and nonce_result carries lane A's
\* nonce; found-B (2) is latched only when lane B qualifies and lane A does not
C5_LaneAWinsTie ==
  [][fsm_state = "CHECK_RESULT" =>
       /\ (~timeout_fired /\ ~attempts_fired /\ hash0_lt_target /\ hash1_lt_target) =>
            /\ fsm_state' = "DONE"
            /\ completion_status' = 1
            /\ SubSeq(nonce_result', 3, NONCE_DATA_FIELD_BYTE_SIZE) = nonce_0
       /\ (completion_status' = 2) => (hash1_lt_target /\ ~hash0_lt_target)]_vars

\* a session that ended found-A while lane B's digest met a nonzero target too
C5_Witness ==
  /\ fsm_state = "DONE"
  /\ completion_status = 1
  /\ target_clz > 0
  /\ hash0_lt_target /\ hash1_lt_target
  /\ ~attempts_fired
  /\ timeout_limit = 0
  /\ SubSeq(nonce_result, 3, NONCE_DATA_FIELD_BYTE_SIZE) = nonce_0
  /\ nonce_1 # nonce_0

\* C6: if the timeout condition and the attempt-limit condition both hold at
\* a CHECK_RESULT, the latched status is timeout (3)
C6_TimeoutBeatsAttemptLimit ==
  [][(fsm_state = "CHECK_RESULT" /\ timeout_fired /\ attempts_fired) =>
       (fsm_state' = "DONE" /\ completion_status' = 3)]_vars

\* a session that ended in timeout with the attempt budget used up as well:
\* the cycle counter stepped once more on the edge into DONE
C6_Witness ==
  /\ fsm_state = "DONE"
  /\ completion_status = 3
  /\ attempts_fired
  /\ timeout_limit # 0
  /\ timeout_counter > timeout_limit

\* C7: DONE is held, with completion_status and nonce_result unchanged, for
\* as long as start is asserted; it is left only to IDLE and only in a cycle
\* where start is deasserted
C7_DoneHeldUntilAck ==
  [][fsm_state = "DONE" =>
       /\ fsm_state' = (IF start THEN "DONE" ELSE "IDLE")
       /\ completion_status' = completion_status
       /\ nonce_result' = nonce_result]_vars

\* DONE held for at least one cycle with start still asserted: the digest
\* latch, which follows the status one cycle later, already holds the winner
C7_Witness ==
  /\ fsm_state = "DONE"
  /\ start
  /\ completion_status = 2
  /\ last_hash = raw_hash_1
  /\ SubSeq(nonce_result, 3, NONCE_DATA_FIELD_BYTE_SIZE) = nonce_1

\* C8: per session completion_status is written once, on the edge from
\* CHECK_RESULT to DONE, to a terminal value; it is none (0) in every running
\* state, not none in DONE, and changes again only when the next start in
\* IDLE clears it
C8_StatusWrittenOncePerSession ==
  [][/\ running => completion_status = 0
     /\ running' => completion_status' = 0
     /\ fsm_state' = "DONE" => completion_status' # 0
     /\ (fsm_state = "CHECK_RESULT" /\ fsm_state' = "DONE") =>
          completion_status' \in {1, 2, 3, 4}
     /\ completion_status' # completion_status =>
          \/ fsm_state = "CHECK_RESULT" /\ fsm_state' = "DONE"
          \/ fsm_state = "IDLE" /\ start /\ completion_status' = 0]_vars

\* C9: stop acts on one transition only: at CHECK_RESULT with no limit fired
\* and no lane qualified, stop sends the FSM to IDLE instead of advancing the
\* nonces, leaving completion_status none and nonce_result unchanged; in every
\* other case the successor state does not depend on stop
C9_StopOnlyAtCheckResult ==
  [][/\ (/\ fsm_state = "CHECK_RESULT"
         /\ ~timeout_fired /\ ~attempts_fired
         /\ ~hash0_lt_target /\ ~hash1_lt_target) =>
          IF stop
            THEN /\ fsm_state' = "IDLE"
                 /\ completion_status' = 0
                 /\ nonce_result' = nonce_result
                 /\ nonce_0' = nonce_0 /\ nonce_1' = nonce_1
                 /\ attempts_counter' = attempts_counter
            ELSE /\ fsm_state' = "INIT_HASH"
                 /\ nonce_0' = nonce_plus_1(nonce_0)
                 /\ attempts_counter' = attempts_counter + no_cores
     /\ (/\ fsm_state = "CHECK_RESULT"
         /\ \/ timeout_fired \/ attempts_fired
            \/ hash0_lt_target \/ hash1_lt_target) => fsm_state' = "DONE"
     /\ fsm_state = "INIT_HASH" => fsm_state' = "ABSORB"
     /\ fsm_state = "ABSORB" => fsm_state' = "PERMUTE"
     /\ fsm_state = "PERMUTE" =>
          fsm_state' = (IF round_index < 23 THEN "PERMUTE"
                        ELSE IF loop_counter + 1 < total_blocks THEN "ABSORB"
                        ELSE "CHECK_RESULT")
     /\ fsm_state = "DONE" => fsm_state' = (IF start THEN "DONE" ELSE "IDLE")
     /\ fsm_state = "IDLE" => fsm_state' = (IF start THEN "INIT_HASH" ELSE "IDLE")
     /\ fsm_state # "CHECK_RESULT" =>
          /\ nonce_result' = nonce_result
          /\ completion_status' \in {completion_status, 0}
          /\ attempts_counter' \in {attempts_counter, 0}]_vars

\* IDLE reached by a stop: lanes hold a finished attempt, no limit is
\* configured and no status was latched
C9_Witness ==
  /\ fsm_state = "IDLE"
  /\ state_0 # ZeroState
  /\ attempt_limit = 0 /\ timeout_limit = 0
  /\ ~hash0_lt_target /\ ~hash1_lt_target
  /\ completion_status = 0
  /\ attempts_counter = no_cores
  /\ nonce_result = Zeros(NONCE_DATA_FIELD_BYTE_SIZE)

\* C10: in the running states the successor does not depend on start: the
\* FSM follows its trajectory, the cycle counter steps, the nonces and the
\* attempt counter move only on a retry and the lanes are cleared only by
\* INIT_HASH; the FSM enters INIT_HASH from outside a session only from
\* IDLE with start asserted
C10_StartIgnoredWhileRunning ==
  [][/\ running =>
          /\ timeout_counter' = (timeout_counter + 1) % (2 ^ TimeoutCounterBits)
          /\ fsm_state' \in {"ABSORB", "PERMUTE", "CHECK_RESULT", "INIT_HASH", "DONE", "IDLE"}
          /\ fsm_state = "INIT_HASH" => fsm_state' = "ABSORB"
          /\ fsm_state = "ABSORB" => fsm_state' = "PERMUTE"
          /\ fsm_state = "PERMUTE" =>
               fsm_state' = (IF round_index < 23 THEN "PERMUTE"
                             ELSE IF loop_counter + 1 < total_blocks THEN "ABSORB"
                             ELSE "CHECK_RESULT")
          /\ fsm_state' = "INIT_HASH" =>
               /\ fsm_state = "CHECK_RESULT"
               /\ nonce_0' = nonce_plus_1(nonce_0)
               /\ attempts_counter' = attempts_counter + no_cores
          /\ fsm_state' # "INIT_HASH" =>
               /\ nonce_0' = nonce_0 /\ nonce_1' = nonce_1
               /\ attempts_counter' = attempts_counter
          /\ fsm_state # "INIT_HASH" => (state_0' # ZeroState /\ state_1' # ZeroState)
     /\ (fsm_state' = "INIT_HASH" /\ fsm_state # "CHECK_RESULT") =>
          (fsm_state = "IDLE" /\ start)]_vars

\* a session in its second attempt although start was deasserted on the way
C10_Witness ==
  /\ fsm_state = "PERMUTE"
  /\ ~start
  /\ nonce_0 = NonceOfInt(2)
  /\ attempts_counter = no_cores
  /\ round_index = 23

\* C11: start is edge-triggered: IDLE launches a session only on a new
\* assertion of start; when IDLE is entered with start high before and after
\* the edge (a stop honoured while start is held), IDLE does not launch
C11_StartEdgeTriggered ==
  [][(fsm_state' = "IDLE" /\ start /\ start') => idle_next_state' = "IDLE"]_vars

\* C12: on every edge from IDLE to INIT_HASH, however the previous session
\* ended, nonce_0 is 1, nonce_1 is 0, the attempt counter and the cycle
\* counter are 0, completion_status is none and block_addr is 0; INIT_HASH
\* hands both lane states to the first ABSORB as zero
C12_SessionStartResets ==
  [][/\ (fsm_state = "IDLE" /\ fsm_state' = "INIT_HASH") =>
          /\ nonce_0'[1] = 1
          /\ \A i \in 2..NONCE_DATA_FIELD_OVERWRITE_SIZE : nonce_0'[i] = 0
          /\ \A i \in 1..NONCE_DATA_FIELD_OVERWRITE_SIZE : nonce_1'[i] = 0
          /\ attempts_counter' = 0
          /\ timeout_counter' = 0
          /\ completion_status' = 0
          /\ block_addr' = 0
     /\ (fsm_state = "INIT_HASH" /\ fsm_state' = "ABSORB") =>
          /\ state_0' = ZeroState /\ state_1' = ZeroState
          /\ loop_counter' = 0]_vars

\* a session just started while the lanes still hold the last attempt of the
\* previous session, which ended found
C12_Witness ==
  /\ fsm_state = "INIT_HASH"
  /\ state_0 # ZeroState
  /\ Len(state_0[1].rounds) = 24
  /\ attempts_counter = 0
  /\ timeout_counter = 0
  /\ nonce_0 = NonceOfInt(1)
  /\ nonce_1 = NonceOfInt(0)
  /\ last_hash # Zeros(MAX_DIFFICULTY_BITS \div 8)

\* C14: for every input_length from 0 to the size of the header buffer,
\* total_blocks is floor(input_length / 136) + 1, capped at MAX_BLOCKS
C14_TotalBlocksFormula ==
  total_blocks =
    (IF input_length \div BLOCK_SIZE_BYTES + 1 > MAX_BLOCKS
       THEN MAX_BLOCKS
       ELSE input_length \div BLOCK_SIZE_BYTES + 1)

\* C13: every ABSORB is followed by 24 PERMUTE cycles with round_index
\* 0, 1, .., 23 in order, round r applying round constant r, with no ABSORB
\* or CHECK_RESULT in between; an attempt has total_blocks ABSORB cycles and
\* CHECK_RESULT is entered only from round 23 of the last block
C13_AbsorbThen24Rounds ==
  [][/\ fsm_state = "ABSORB" => (fsm_state' = "PERMUTE" /\ round_index' = 0)
     /\ fsm_state = "PERMUTE" =>
          /\ IF round_index < 23
               THEN fsm_state' = "PERMUTE" /\ round_index' = round_index + 1
               ELSE fsm_state' \in {"ABSORB", "CHECK_RESULT"}
          /\ state_0'[Len(state_0')].rounds = [r \in 1..(round_index + 1) |-> r - 1]
          /\ state_1'[Len(state_1')].rounds = [r \in 1..(round_index + 1) |-> r - 1]
     /\ fsm_state' = "ABSORB" =>
          \/ fsm_state = "INIT_HASH"
          \/ fsm_state = "PERMUTE" /\ round_index = 23
     /\ fsm_state' = "CHECK_RESULT" =>
          /\ fsm_state = "PERMUTE" /\ round_index = 23
          /\ Len(state_0') = total_blocks
          /\ Len(state_1') = total_blocks]_vars

\* C15: for every input_length from 0 to the size of the header buffer and
\* every block index below the block count, the padded block made from the
\* stored raw block equals the same 136-byte block of the reference pad10*1
\* padding: raw bytes, 0x06 at byte input_length, zeros, 0x80 OR-ed into
\* byte 135 of the last block
C15_PadderMatchesReference ==
  LET blocks == IF input_length \div BLOCK_SIZE_BYTES + 1 > MAX_BLOCKS
                  THEN MAX_BLOCKS
                  ELSE input_length \div BLOCK_SIZE_BYTES + 1
  IN \A b \in 0..(blocks - 1) :
       padded_block(BlockData(HeaderBlock(b)), b, input_length)
         = sha3_256_sw_block(Zeros(NONCE_DATA_FIELD_OVERWRITE_SIZE), b)

\* the block that holds byte input_length of the message, as the padder
\* produces it
final_block_padded ==
  LET fb == input_length \div BLOCK_SIZE_BYTES
  IN padded_block(BlockData(HeaderBlock(fb)), fb, input_length)

C17_NonceMaskConfined ==
  LET outside == (0..(NONCE_START_BYTE - 1))
                   \cup (NONCE_FIELD_BYTE_SIZE..(BLOCK_SIZE_BYTES - 1))
      header_0 == padded_block(BlockData(HeaderBlock(0)), 0, input_length)
  IN fsm_state = "ABSORB" =>
       /\ loop_counter >= 1 =>
            /\ nonce_mask_0 = ZeroBlock /\ nonce_mask_1 = ZeroBlock
            /\ absorb_data_0 = absorb_data_1
       /\ loop_counter = 0 =>
            \A g \in outside :
              /\ ByteOfBlock(nonce_mask_0, g) = 0
              /\ ByteOfBlock(nonce_mask_1, g) = 0
              /\ ByteOfBlock(absorb_data_0, g) = ByteOfBlock(header_0, g)
              /\ ByteOfBlock(absorb_data_1, g) = ByteOfBlock(header_0, g)

\* C18: within a session lane 0 injects nonce k in its k-th attempt; lane 1
\* injects 0 in the first attempt and, in attempt k >= 2, the low 240 bits of
\* lane 0's state at the CHECK_RESULT of attempt k-1; both nonces are held
\* through the attempt
C18_NonceSequence ==
  [][/\ running' =>
          /\ nonce_0' = NonceOfInt(attempts_counter' \div no_cores + 1)
          /\ attempts_counter' = 0 =>
               nonce_1' = Zeros(NONCE_DATA_FIELD_OVERWRITE_SIZE)
     /\ (fsm_state = "CHECK_RESULT" /\ fsm_state' = "INIT_HASH") =>
          /\ attempts_counter' = attempts_counter + no_cores
          /\ nonce_1' = SubSeq(raw_hash_0, 1, NONCE_DATA_FIELD_OVERWRITE_SIZE)
     /\ (running /\ running' /\ fsm_state # "CHECK_RESULT") =>
          (nonce_0' = nonce_0 /\ nonce_1' = nonce_1)]_vars

\* the third attempt absorbing block 0: lane 0 injects 3, lane 1 the digest
\* bits of lane 0's second attempt
C18_Witness ==
  /\ fsm_state = "ABSORB"
  /\ loop_counter = 0
  /\ attempts_counter = 2 * no_cores
  /\ ByteOfBlock(nonce_mask_0, NONCE_START_BYTE) = 3
  /\ nonce_1 # Zeros(NONCE_DATA_FIELD_OVERWRITE_SIZE)
  /\ SubSeq(BytesOfBlock(nonce_mask_1, 0, BLOCK_SIZE_BYTES - 1),
            NONCE_START_BYTE + 1, NONCE_FIELD_BYTE_SIZE) = nonce_1

\* C19: with attempt_limit = L > 0, the timeout disabled and a target no
\* digest meets, the session ends attempts-exhausted after at most L hash
\* attempts, each lane's hash counted as one: at every CHECK_RESULT, and in
\* DONE, the hashes completed (the counter plus the two just finished) are
\* at most L, and DONE holds the attempts-exhausted status
C19_AtMostLAttempts ==
  (attempt_limit > 0 /\ timeout_limit = 0 /\ target_clz > MAX_DIFFICULTY_BITS) =>
    /\ fsm_state \in {"CHECK_RESULT", "DONE"} =>
         attempts_counter + no_cores <= attempt_limit
    /\ fsm_state = "DONE" => completion_status = 4

\* the case of C20: a cycle limit, no attempt limit, a target no digest meets
timeout_only_session ==
  /\ timeout_limit > 0 /\ attempt_limit = 0
  /\ target_clz > MAX_DIFFICULTY_BITS

\* the CHECK_RESULT visits of the session so far, this one included
check_result_visits == attempts_counter \div no_cores + 1

HighTimeoutLimit == 3 * (2 ^ (TimeoutCounterBits - 2)) + 4

InitCycleLimit == InitWith(InputLengths, {300}, {0, HighTimeoutLimit}, {0})

\* sessions that never find, under no limit or under a high cycle limit
SpecCycleLimit == InitCycleLimit /\ [][Next]_vars

\* the running cycles of the session before a CHECK_RESULT cycle: every pass
\* is one INIT_HASH cycle and 25 cycles for each block, and every earlier
\* pass ended with one CHECK_RESULT cycle
cycles_at_check_result == check_result_visits * (2 + 25 * total_blocks) - 1

\* C21: at every CHECK_RESULT the timeout counter equals the number of
\* cycles the session has spent running, and with a nonzero timeout_limit
\* status timeout is latched at the visit exactly when that number of cycles
\* is at least the limit, so at the first such visit and at no earlier one
C21_TimeoutCountsRunningCycles ==
  [][fsm_state = "CHECK_RESULT" =>
       /\ timeout_counter = cycles_at_check_result
       /\ timeout_limit # 0 =>
            (completion_status' = 3 <=> cycles_at_check_result >= timeout_limit)]_vars

\* C22: with timeout_limit = 0 no CHECK_RESULT latches timeout, whatever the
\* cycle counter holds; with attempt_limit = 0 no CHECK_RESULT ends the
\* session by the attempt limit (DONE is entered only with found-A, found-B
\* or timeout); and a limit of zero does not disable the other limit
C22_ZeroDisablesEachLimit ==
  [][fsm_state = "CHECK_RESULT" =>
       /\ timeout_limit = 0 =>
            /\ completion_status' # 3
            /\ (attempt_limit # 0 /\ attempts_counter >= attempt_limit) =>
                 (fsm_state' = "DONE" /\ completion_status' \notin {1, 2, 3})
       /\ attempt_limit = 0 =>
            /\ fsm_state' = "DONE" => completion_status' \in {1, 2, 3}
            /\ (timeout_limit # 0 /\ timeout_counter >= timeout_limit) =>
                 (fsm_state' = "DONE" /\ completion_status' = 3)]_vars

\* both limits zero: the third pass of a session begins, two CHECK_RESULT
\* visits having latched nothing with the cycle counter two passes on
C22_Witness ==
  /\ fsm_state = "INIT_HASH"
  /\ timeout_limit = 0 /\ attempt_limit = 0
  /\ attempts_counter = 2 * no_cores
  /\ completion_status = 0
  /\ timeout_counter = (2 * (2 + 25 * total_blocks)) % (2 ^ TimeoutCounterBits)

\* C23: with target 0 and no limit reached, a session is found at its first
\* CHECK_RESULT: the visit is the first of the session, it latches found-A
\* and enters DONE, the result nonce carries nonce value 1, and lane A's
\* digest is the reference hash of the header with nonce 1
C23_TrivialTargetFoundAtFirstVisit ==
  [][(fsm_state = "CHECK_RESULT" /\ target_clz = 0
        /\ ~timeout_fired /\ ~attempts_fired) =>
       /\ check_result_visits = 1
       /\ fsm_state' = "DONE" /\ completion_status' = 1
       /\ nonce_0 = NonceOfInt(1)
       /\ SubSeq(nonce_result', 3, NONCE_DATA_FIELD_BYTE_SIZE) = NonceOfInt(1)
       /\ state_0 = sha3_256_sw_state(NonceOfInt(1))]_vars

\* C24: when a lane has been latched as found, whatever the number of header
\* blocks, nonce_result holds header bytes 2 and 3 in its bytes 0..1 and the
\* winning lane's nonce in its bytes 2..31
C24_ResultCarriesHeaderBytes2And3 ==
  (fsm_state = "DONE" /\ completion_status \in {1, 2}) =>
    /\ SubSeq(nonce_result, 1, 2) =
         <<HeaderByte(input_length, 2), HeaderByte(input_length, 3)>>
    /\ SubSeq(nonce_result, 3, NONCE_DATA_FIELD_BYTE_SIZE) =
         (IF completion_status = 1 THEN nonce_0 ELSE nonce_1)

\* ------------------------------------------------------------------------
\* 7. The leading-zero evaluator against its reference
\*    (CountLeadingZero/clz_testbench.py, calculate_java_clz)
\* ------------------------------------------------------------------------
\* int.bit_length() of a byte
byte_bit_length(b) ==
  IF b = 0 THEN 0 ELSE 1 + (CHOOSE n \in 0..7 : 2 ^ n <= b /\ b < 2 ^ (n + 1))

\* int.from_bytes(byte_stream, 'big').bit_length(): the first byte is the
\* most significant one
big_endian_bit_length(bytes) ==
  LET nonzero == {j \in 1..Len(bytes) : bytes[j] # 0}
      first == CHOOSE j \in nonzero : \A i \in nonzero : j <= i
  IN IF nonzero = {} THEN 0
     ELSE 8 * (Len(bytes) - first) + byte_bit_length(bytes[first])

calculate_java_clz(byte_stream) ==
  IF big_endian_bit_length(byte_stream) = 0 THEN MAX_DIFFICULTY_BITS
  ELSE MAX_DIFFICULTY_BITS - big_endian_bit_length(byte_stream)

\* what follows the first set bit of a test digest: zeros, ones, or
\* alternating bits
DigestFills == {"zeros", "ones", "alternating"}

\* bit p of a test digest, p counted from the top bit of the first byte:
\* lz zero bits, a one, then the fill
digest_bit(lz, fill, p) ==
  IF p < lz THEN 0
  ELSE IF p = lz THEN 1
  ELSE IF fill = "zeros" THEN 0
  ELSE IF fill = "ones" THEN 1
  ELSE p % 2

\* the 32 bytes of a test digest, first digest byte first
Digest(lz, fill) ==
  [j \in 1..(MAX_DIFFICULTY_BITS \div 8) |->
     ByteOf([k \in 0..7 |-> digest_bit(lz, fill, 8 * (j - 1) + (7 - k))])]

\* a lane state whose low 256 bits are the given digest
state_with_digest(digest) ==
  <<[absorbed |-> [i \in 1..RATE_WORDS |->
                     [j \in 1..WORD_BYTES |->
                        IF (i - 1) * WORD_BYTES + j <= MAX_DIFFICULTY_BITS \div 8
                          THEN digest[(i - 1) * WORD_BYTES + j] ELSE 0]],
     rounds |-> << >>]>>

\* the datapath idle, each lane's state register holding a digest with a
\* known number of leading zeros
InitClz ==
  /\ start = FALSE
  /\ stop = FALSE
  /\ input_length \in {100}
  /\ target_clz \in {0}
  /\ timeout_storage \in {timeout_csr(0, 0)}
  /\ attempt_limit \in {0}
  /\ mem_banks = HeaderBanks
  /\ HeaderPortQuiet
  /\ header_data = ReadBanks(mem_banks, 0)
  /\ current_raw_block = ReadBanks(mem_banks, 0)
  /\ fsm_state = "IDLE"
  /\ block_addr = 0
  /\ loop_counter = 0
  /\ round_index = 0
  /\ timeout_counter = 0
  /\ attempts_counter = 0
  /\ completion_status = 0
  /\ nonce_0 = NonceOfInt(1)
  /\ nonce_1 = NonceOfInt(0)
  /\ nonce_result = Zeros(NONCE_DATA_FIELD_BYTE_SIZE)
  /\ \E lz \in 0..MAX_DIFFICULTY_BITS, fill \in DigestFills :
       /\ state_0 = state_with_digest(Digest(lz, fill))
       /\ state_1 = state_with_digest(Digest(MAX_DIFFICULTY_BITS - lz, fill))
  /\ last_hash = Zeros(MAX_DIFFICULTY_BITS \div 8)

SpecClz == InitClz /\ [][IdleHeld]_vars

\* C25: for every digest the evaluator's output is the number of leading
\* zero bits of the digest read as a big-endian integer: 8 times the index of
\* the first non-zero byte plus the zeros in front of that byte's first set
\* bit, 0 when the top bit of the first byte is set, 256 for the all-zero
\* digest
C25_ClzMatchesBigEndianCount ==
  /\ clz_0_out = calculate_java_clz(raw_hash_0)
  /\ clz_1_out = calculate_java_clz(raw_hash_1)
  /\ \A j \in 1..(MAX_DIFFICULTY_BITS \div 8) :
       (raw_hash_0[j] # 0 /\ \A i \in 1..(j - 1) : raw_hash_0[i] = 0) =>
         clz_0_out = 8 * (j - 1) + (8 - byte_bit_length(raw_hash_0[j]))
  /\ raw_hash_0[1] >= 128 => clz_0_out = 0
  /\ raw_hash_0 = Zeros(MAX_DIFFICULTY_BITS \div 8) => clz_0_out = MAX_DIFFICULTY_BITS

\* a digest whose only set bit is the lowest bit of its last byte: 255
\* leading zeros; the other lane's digest has its second bit set first
C25_Witness ==
  /\ raw_hash_0 = Zeros(MAX_DIFFICULTY_BITS \div 8 - 1) \o <<1>>
  /\ clz_0_out = MAX_DIFFICULTY_BITS - 1
  /\ raw_hash_1[1] = 64
  /\ clz_1_out = 1

\* C26: a session does not depend on what came before it.  The datapath is
\* deterministic, so two sessions with the same configuration and the same
\* stop input run alike if they begin alike: at the first ABSORB of every
\* session the registers the session reads hold the values they hold in the
\* first session after the header was loaded, and both lanes absorb block 0
\* of the header with nonces 1 and 0
C26_SessionIndependentOfHistory ==
  (fsm_state = "ABSORB" /\ attempts_counter = 0 /\ loop_counter = 0) =>
    /\ state_0 = ZeroState /\ state_1 = ZeroState
    /\ nonce_0 = NonceOfInt(1) /\ nonce_1 = NonceOfInt(0)
    /\ block_addr = 0
    /\ timeout_counter = 1
    /\ completion_status = 0
    /\ absorb_data_0 =
         BlockXor(padded_block(BlockData(HeaderBlock(0)), 0, input_length),
                  nonce_mask(NonceOfInt(1), 0))
    /\ absorb_data_1 =
         BlockXor(padded_block(BlockData(HeaderBlock(0)), 0, input_length),
                  nonce_mask(NonceOfInt(0), 0))

\* ------------------------------------------------------------------------
\* 8. Termination of a search that never finds
\* ------------------------------------------------------------------------
\* the host asserts start and holds it, and never asserts stop
StartHeld == Next /\ start' /\ ~stop'

\* a three-block header, a target no digest meets, a nonzero cycle limit
\* (one below and one above the cycles of a first pass), with and without
\* an attempt limit
InitTermination ==
  InitWith({300}, {300}, {30, HighTimeoutLimit}, AttemptLimits)

\* the design is clocked: a cycle that can be taken is taken
SpecTermination ==
  InitTermination /\ [][StartHeld]_vars /\ WF_vars(StartHeld)

\* C27: with a nonzero timeout_limit, stable configuration, start held and
\* no stop, a session whose target is never met reaches DONE with status
\* timeout, or attempts-exhausted when the attempt limit is set: it does not
\* search forever
C27_SearchTerminates ==
  (fsm_state = "INIT_HASH" /\ attempts_counter = 0 /\ timeout_limit # 0)
    ~> (fsm_state = "DONE" /\ completion_status \in {3, 4})

\* ------------------------------------------------------------------------
\* 9. The permutation core at bit level (keccak_core.py, utils.py) and the
\*    reference permutation (VerificationTest/sha3_function.py)
\* ------------------------------------------------------------------------
\* In this section a 64-bit lane is its 64 bits, bit 0 first, and a lane
\* state is its 25 lanes, lane 0 first: Cat(*step_input) = state.
LaneBits == 0..63
LaneIndex == 0..24

\* a 64-bit constant given by its 8 bytes, low byte first
LaneOfBytes(bytes) == [k \in LaneBits |-> Bit(bytes[(k \div 8) + 1], k % 8)]

\* the 8 bytes of a lane, low byte first
BytesOfLane(lane) ==
  [j \in 1..8 |-> ByteOf([k \in 0..7 |-> lane[8 * (j - 1) + k]])]

Xor64(a, b) == [k \in LaneBits |-> (a[k] + b[k]) % 2]

\* utils.KECCAK_ROUND_CONSTANTS, each as its bytes
KECCAK_ROUND_CONSTANTS == <<
  <<1, 0, 0, 0, 0, 0, 0, 0>>,
  <<130, 128, 0, 0, 0, 0, 0, 0>>,
  <<138, 128, 0, 0, 0, 0, 0, 128>>,
  <<0, 128, 0, 128, 0, 0, 0, 128>>,
  <<139, 128, 0, 0, 0, 0, 0, 0>>,
  <<1, 0, 0, 128, 0, 0, 0, 0>>,
  <<129, 128, 0, 128, 0, 0, 0, 128>>,
  <<9, 128, 0, 0, 0, 0, 0, 128>>,
  <<138, 0, 0, 0, 0, 0, 0, 0>>,
  <<136, 0, 0, 0, 0, 0, 0, 0>>,
  <<9, 128, 0, 128, 0, 0, 0, 0>>,
  <<10, 0, 0, 128, 0, 0, 0, 0>>,
  <<139, 128, 0, 128, 0, 0, 0, 0>>,
  <<139, 0, 0, 0, 0, 0, 0, 128>>,
  <<137, 128, 0, 0, 0, 0, 0, 128>>,
  <<3, 128, 0, 0, 0, 0, 0, 128>>,
  <<2, 128, 0, 0, 0, 0, 0, 128>>,
  <<128, 0, 0, 0, 0, 0, 0, 128>>,
  <<10, 128, 0, 0, 0, 0, 0, 0>>,
  <<10, 0, 0, 128, 0, 0, 0, 128>>,
  <<129, 128, 0, 128, 0, 0, 0, 128>>,
  <<128, 128, 0, 0, 0, 0, 0, 128>>,
  <<1, 0, 0, 128, 0, 0, 0, 0>>,
  <<8, 128, 0, 128, 0, 0, 0, 128>> >>

\* utils.RHO_OFFSETS[y][x]
RHO_OFFSETS == <<
  <<0, 1, 62, 28, 27>>,
  <<36, 44, 6, 55, 20>>,
  <<3, 10, 43, 25, 39>>,
  <<41, 45, 15, 21, 8>>,
  <<18, 2, 61, 56, 14>> >>

\* utils.rol64: ((value << shift) | (value >> (64 - shift)))[:64]
rol64(value, shift) ==
  IF shift = 0 THEN value
  ELSE [k \in LaneBits |->
          LET shifted_left == IF k >= shift THEN value[k - shift] ELSE 0
              shifted_right == IF k + (64 - shift) <= 63
                                 THEN value[k + (64 - shift)] ELSE 0
          IN IF shifted_left + shifted_right > 0 THEN 1 ELSE 0]

\* C[x] = A[x,0] ^ A[x,1] ^ A[x,2] ^ A[x,3] ^ A[x,4]
theta_c(step_input, x) ==
  [k \in LaneBits |->
     (step_input[x][k] + step_input[x + 5][k] + step_input[x + 10][k]
        + step_input[x + 15][k] + step_input[x + 20][k]) % 2]

\* faulty variant: the two neighbouring columns exchanged
theta_d_swapped(step_input, x) ==
  Xor64(theta_c(step_input, (x + 1) % 5), rol64(theta_c(step_input, (x + 4) % 5), 1))

\* D[x] = C[x-1] ^ ROL(C[x+1], 1)
theta_d(step_input, x) ==
  Xor64(theta_c(step_input, (x + 4) % 5), rol64(theta_c(step_input, (x + 1) % 5), 1))

theta_out(step_input) ==
  LET d == [x \in 0..4 |-> theta_d(step_input, x)]
  IN [i \in LaneIndex |-> Xor64(step_input[i], d[i % 5])]

\* RHO_OFFSETS[y][x] for the lane x + 5 * y
rho_offset(idx) == RHO_OFFSETS[(idx \div 5) + 1][(idx % 5) + 1]

rho_out(theta) ==
  [i \in LaneIndex |-> rol64(theta[i], rho_offset(i))]

\* faulty variant: the row is kept and the column takes (2x + 3y) % 5
pi_dest_idx_row_kept(src_idx) ==
  ((2 * (src_idx % 5) + 3 * (src_idx \div 5)) % 5) + 5 * (src_idx \div 5)

\* dest_x = y, dest_y = (2 * x + 3 * y) % 5, dest_idx = dest_x + 5 * dest_y
pi_dest_idx(src_idx) ==
  LET x == src_idx % 5
      y == src_idx \div 5
      dest_x == y
      dest_y == (2 * x + 3 * y) % 5
  IN dest_x + 5 * dest_y

\* pi_out[dest_idx] = rho_out[src_idx]
pi_out(rho) ==
  [dest_idx \in LaneIndex |->
     LET src_idx == CHOOSE s \in LaneIndex : pi_dest_idx(s) = dest_idx
     IN rho[src_idx]]

\* chi_out[idx] = pi_out[idx] ^ (~pi_out[nxt] & pi_out[nxt2])
chi_out(pi) ==
  [idx \in LaneIndex |->
     LET x == idx % 5
         y == idx \div 5
         nxt == ((x + 1) % 5) + 5 * y
         nxt2 == ((x + 2) % 5) + 5 * y
     IN [k \in LaneBits |-> (pi[idx][k] + (1 - pi[nxt][k]) * pi[nxt2][k]) % 2]]

\* iota: the round constant into lane 0, the other lanes pass through
core_iota_out(chi, round_const) ==
  [idx \in LaneIndex |-> IF idx = 0 THEN Xor64(chi[0], round_const) ELSE chi[idx]]

\* one evaluation of KeccakCore
KeccakCore(step_input, round_const) ==
  LET t == theta_out(step_input)
      r == rho_out(t)
      p == pi_out(r)
      c == chi_out(p)
  IN core_iota_out(c, round_const)

\* round_consts[round_index]
round_consts(r) == LaneOfBytes(KECCAK_ROUND_CONSTANTS[r + 1])

\* --- the reference ---
\* sha3_function.KECCAK_ROUND_CONSTANTS
KECCAK_ROUND_CONSTANTS_sw == <<
  <<1, 0, 0, 0, 0, 0, 0, 0>>,
  <<130, 128, 0, 0, 0, 0, 0, 0>>,
  <<138, 128, 0, 0, 0, 0, 0, 128>>,
  <<0, 128, 0, 128, 0, 0, 0, 128>>,
  <<139, 128, 0, 0, 0, 0, 0, 0>>,
  <<1, 0, 0, 128, 0, 0, 0, 0>>,
  <<129, 128, 0, 128, 0, 0, 0, 128>>,
  <<9, 128, 0, 0, 0, 0, 0, 128>>,
  <<138, 0, 0, 0, 0, 0, 0, 0>>,
  <<136, 0, 0, 0, 0, 0, 0, 0>>,
  <<9, 128, 0, 128, 0, 0, 0, 0>>,
  <<10, 0, 0, 128, 0, 0, 0, 0>>,
  <<139, 128, 0, 128, 0, 0, 0, 0>>,
  <<139, 0, 0, 0, 0, 0, 0, 128>>,
  <<137, 128, 0, 0, 0, 0, 0, 128>>,
  <<3, 128, 0, 0, 0, 0, 0, 128>>,
  <<2, 128, 0, 0, 0, 0, 0, 128>>,
  <<128, 0, 0, 0, 0, 0, 0, 128>>,
  <<10, 128, 0, 0, 0, 0, 0, 0>>,
  <<10, 0, 0, 128, 0, 0, 0, 128>>,
  <<129, 128, 0, 128, 0, 0, 0, 128>>,
  <<128, 128, 0, 0, 0, 0, 0, 128>>,
  <<1, 0, 0, 128, 0, 0, 0, 0>>,
  <<8, 128, 0, 128, 0, 0, 0, 128>> >>

\* sha3_function.rol64: ((x << y) | (x >> (64 - y))) & 0xFFFFFFFFFFFFFFFF
rol64_sw(x, y) ==
  [k \in LaneBits |->
     LET shifted_left == IF k >= y THEN x[k - y] ELSE 0
         shifted_right == IF k + (64 - y) <= 63 THEN x[k + (64 - y)] ELSE 0
     IN IF shifted_left + shifted_right > 0 THEN 1 ELSE 0]

\* the lane order and rotation counts of the Rho and Pi loop
keccakf_sw_piln ==
  <<10, 7, 11, 17, 18, 3, 5, 16, 8, 21, 24, 4,
    15, 23, 19, 13, 12, 2, 20, 14, 22, 9, 6, 1>>
keccakf_sw_rotc ==
  <<1, 3, 6, 10, 15, 21, 28, 36, 45, 55, 2, 14,
    27, 41, 56, 8, 25, 43, 62, 18, 39, 61, 20, 44>>

\* Theta: bc[i] over the columns, then state[j + i] ^= t
keccakf_sw_theta(state) ==
  LET bc == [i \in 0..4 |->
               [k \in LaneBits |->
                  (state[i][k] + state[i + 5][k] + state[i + 10][k]
                     + state[i + 15][k] + state[i + 20][k]) % 2]]
      t == [i \in 0..4 |-> Xor64(bc[(i + 4) % 5], rol64_sw(bc[(i + 1) % 5], 1))]
  IN [n \in LaneIndex |-> Xor64(state[n], t[n % 5])]

\* Rho and Pi: t = state[1]; for i in range(24): j = piln[i];
\* bc0 = state[j]; state[j] = rol64(t, rotc[i]); t = bc0.  Step i reads
\* state[j] before it writes it, and no j occurs twice, so the lane moved
\* into piln[i] is the lane the loop started with at piln[i - 1] (at 1 for
\* i = 0).
keccakf_sw_rho_pi(state) ==
  [n \in LaneIndex |->
     IF n = 0 THEN state[0]
     ELSE LET i == CHOOSE m \in 1..24 : keccakf_sw_piln[m] = n
              from == IF i = 1 THEN 1 ELSE keccakf_sw_piln[i - 1]
          IN rol64_sw(state[from], keccakf_sw_rotc[i])]

\* Chi: per row, state[j + i] ^= (~bc[(i + 1) % 5]) & bc[(i + 2) % 5]
keccakf_sw_chi(state) ==
  [n \in LaneIndex |->
     LET j == (n \div 5) * 5
         i == n % 5
     IN [k \in LaneBits |->
           (state[n][k]
              + (1 - state[j + ((i + 1) % 5)][k]) * state[j + ((i + 2) % 5)][k]) % 2]]

\* Iota: state[0] ^= KECCAK_ROUND_CONSTANTS[round_idx]
keccakf_sw_iota(state, round_idx) ==
  [n \in LaneIndex |->
     IF n = 0 THEN Xor64(state[0], LaneOfBytes(KECCAK_ROUND_CONSTANTS_sw[round_idx + 1]))
     ELSE state[n]]

\* one pass of the loop body of keccakf_sw
keccakf_sw_round(state, round_idx) ==
  LET a == keccakf_sw_theta(state)
      b == keccakf_sw_rho_pi(a)
      c == keccakf_sw_chi(b)
  IN keccakf_sw_iota(c, round_idx)

\* --- the core in the datapath, on concrete lane states ---
\* number of pairs of test states the lanes are started with
KeccakTestPairs == 5

\* bit k of lane i of test state n: the zero state, the all-ones state,
\* states with a single bit set, and dense patterns
KeccakTestBit(n, i, k) ==
  IF n = 0 THEN 0
  ELSE IF n = 1 THEN 1
  ELSE IF n % 2 = 0
    THEN IF i = (5 * n + 1) % 25 /\ k = (11 * n) % 64 THEN 1 ELSE 0
  ELSE IF (i * 7 + k * n + (i * k) \div 5) % 3 = 0 THEN 1 ELSE 0

KeccakTestState(n) ==
  [i \in LaneIndex |-> [k \in LaneBits |-> KeccakTestBit(n, i, k)]]

\* PERMUTE with the lane states at bit level:
\* NextValue(state, Cat(*core.iota_out)), round_const = round_consts[round_index]
PermuteRound ==
  /\ fsm_state = "PERMUTE"
  /\ state_0' = KeccakCore(state_0, round_consts(round_index))
  /\ state_1' = KeccakCore(state_1, round_consts(round_index))
  /\ \E last \in total_blocks_minus_1 :
       block_addr' = IF early_increment(last) THEN block_addr + 1 ELSE block_addr
  /\ fsm_state' = permute_next_state
  /\ loop_counter' = IF round_index = 23 /\ more_blocks
                        THEN loop_counter + 1 ELSE loop_counter
  /\ round_index' = IF round_index = 23 THEN round_index ELSE round_index + 1
  /\ timeout_counter' = timeout_counter_plus_1
  /\ UNCHANGED <<attempts_counter, completion_status, nonce_0, nonce_1, nonce_result>>
  /\ ReadPipeline
  /\ UNCHANGED <<config, last_hash>>
  /\ HeaderWriteLogic
  /\ HostLeavesHeader
  /\ start' = FALSE /\ stop' = FALSE

\* the first PERMUTE cycle of a one-block session, the lanes holding a pair
\* of test states
InitKeccak ==
  /\ start = FALSE
  /\ stop = FALSE
  /\ input_length \in {100}
  /\ target_clz \in {0}
  /\ timeout_storage \in {timeout_csr(0, 0)}
  /\ attempt_limit \in {0}
  /\ mem_banks = HeaderBanks
  /\ HeaderPortQuiet
  /\ header_data = ReadBanks(mem_banks, 0)
  /\ current_raw_block = ReadBanks(mem_banks, 0)
  /\ fsm_state = "PERMUTE"
  /\ block_addr = 0
  /\ loop_counter = 0
  /\ round_index = 0
  /\ timeout_counter = 2
  /\ attempts_counter = 0
  /\ completion_status = 0
  /\ nonce_0 = NonceOfInt(1)
  /\ nonce_1 = NonceOfInt(0)
  /\ nonce_result = Zeros(NONCE_DATA_FIELD_BYTE_SIZE)
  /\ \E n \in 0..(KeccakTestPairs - 1) :
       /\ state_0 = KeccakTestState(2 * n)
       /\ state_1 = KeccakTestState(2 * n + 1)
  /\ last_hash = Zeros(MAX_DIFFICULTY_BITS \div 8)

SpecKeccak == InitKeccak /\ [][PermuteRound]_vars

\* C28: one evaluation of KeccakCore is one round of the reference
\* Keccak-f[1600]: in every PERMUTE cycle each lane's next state is the
\* reference round, with round constant number round_index, of its present
\* state; the cycles run through the round indices 0..23 in order, so the
\* 24 cycles are the reference permutation.  Stage by stage: the theta
\* output is the reference's Theta, rho and pi together are its Rho and Pi
\* loop, chi is its Chi, and iota changes lane 0 only
C28_CoreIsReferenceRound ==
  [][fsm_state = "PERMUTE" =>
       /\ state_0' = keccakf_sw_round(state_0, round_index)
       /\ state_1' = keccakf_sw_round(state_1, round_index)
       /\ round_index' = (IF round_index = 23 THEN 23 ELSE round_index + 1)
       /\ fsm_state' = (IF round_index = 23 THEN "CHECK_RESULT" ELSE "PERMUTE")
       /\ LET t == theta_out(state_0)
              p == pi_out(rho_out(t))
              c == chi_out(p)
          IN /\ t = keccakf_sw_theta(state_0)
             /\ p = keccakf_sw_rho_pi(t)
             /\ c = keccakf_sw_chi(p)
             /\ \A idx \in 1..24 : state_0'[idx] = c[idx]
             /\ state_0'[0] = Xor64(c[0], round_consts(round_index))]_vars

\* the 24 rounds done on the zero state: lanes 0 and 1 hold the known
\* answer of Keccak-f[1600] (E7 DD E1 40 79 8F 25 F1, 8A 47 C0 33 F9 CC D5 84)
C28_Witness ==
  /\ fsm_state = "CHECK_RESULT"
  /\ round_index = 23
  /\ BytesOfLane(state_0[0]) = <<231, 221, 225, 64, 121, 143, 37, 241>>
  /\ BytesOfLane(state_0[1]) = <<138, 71, 192, 51, 249, 204, 213, 132>>

\* ------------------------------------------------------------------------
\* 10. The stored result against the lanes (keccak_datapath_simd.py,
\*     lines 272-316 and 407-465)
\* ------------------------------------------------------------------------

\* nonce part of the result nonce: bytes 2..31
result_nonce_part == SubSeq(nonce_result, 3, NONCE_DATA_FIELD_BYTE_SIZE)

\* C29: the target is constant over a behaviour.  Whenever the completion
\* status is found-A (1), lane A's exposed digest has a leading-zero count
\* >= target and the nonce part of the result nonce is lane A's nonce
\* register; whenever it is found-B (2), lane B's count is >= target, lane
\* A's count is < target and the nonce part is lane B's nonce register.
\* The status is 1 or 2 in DONE and, after the handshake, in IDLE until the
\* next start clears it
C29_FoundStatusAgreesWithLanes ==
  /\ (completion_status \in {1, 2}) => (fsm_state \in {"DONE", "IDLE"})
  /\ (completion_status = 1) =>
       /\ clz_0_out >= target_clz
       /\ result_nonce_part = nonce_0
  /\ (completion_status = 2) =>
       /\ clz_1_out >= target_clz
       /\ clz_0_out < target_clz
       /\ result_nonce_part = nonce_1

\* back in IDLE after a find by lane B with a target above zero, start low
C29_Witness ==
  /\ fsm_state = "IDLE"
  /\ ~start
  /\ completion_status = 2
  /\ target_clz > 0
  /\ clz_1_out >= target_clz
  /\ clz_0_out < target_clz
  /\ result_nonce_part = nonce_1

\* C30: the result nonce register changes only on the edge from
\* CHECK_RESULT to DONE that latches found-A or found-B; the start in
\* IDLE, a stop, a timeout, exhausted attempts and every other edge leave
\* it as it is
C30_ResultNonceWrittenOnlyOnFind ==
  [][/\ (nonce_result' # nonce_result) =>
          /\ fsm_state = "CHECK_RESULT"
          /\ fsm_state' = "DONE"
          /\ completion_status' \in {1, 2}
     /\ (fsm_state = "IDLE" /\ start) => nonce_result' = nonce_result
     /\ (fsm_state = "CHECK_RESULT" /\ fsm_state' = "IDLE") =>
          nonce_result' = nonce_result
     /\ (fsm_state = "CHECK_RESULT" /\ (timeout_fired \/ attempts_fired)) =>
          nonce_result' = nonce_result]_vars

\* a later session has ended without a find (status not 1 or 2, cycles
\* counted since its start) and the register still holds the record of the
\* earlier winner, which is the nonce of neither lane any more
C30_Witness ==
  /\ fsm_state \in {"DONE", "IDLE"}
  /\ completion_status \notin {1, 2}
  /\ timeout_counter > 0
  /\ nonce_result # Zeros(NONCE_DATA_FIELD_BYTE_SIZE)
  /\ result_nonce_part \notin {nonce_0, nonce_1}

\* ------------------------------------------------------------------------
\* 11. The attempt counter against lane A's nonce (keccak_datapath_simd.py,
\*     lines 340-352 and 432-441)
\* ------------------------------------------------------------------------

\* C31: from the start of a session until the next start the attempt
\* counter is 2 * (lane A's nonce - 1).  The counter changes only on the
\* start in IDLE, which clears it and sets the nonce to 1, and on an
\* unsuccessful CHECK_RESULT, which adds exactly 2 while the nonce grows
\* by 1; the nonce changes on no other edge.  (The counter has 64 bits and
\* the nonce 240: the relation is the one over the integers for the first
\* 2^63 passes of a session, which is every session explored here.)
C31_AttemptsAreTwiceNonceMinusOne ==
  [][/\ nonce_0 = NonceOfInt(attempts_counter \div 2 + 1)
     /\ attempts_counter % 2 = 0
     /\ nonce_0' = NonceOfInt(attempts_counter' \div 2 + 1)
     /\ attempts_counter' % 2 = 0
     /\ (attempts_counter' # attempts_counter \/ nonce_0' # nonce_0) =>
          \/ /\ fsm_state = "IDLE" /\ start
             /\ attempts_counter' = 0
             /\ nonce_0' = NonceOfInt(1)
          \/ /\ fsm_state = "CHECK_RESULT" /\ fsm_state' = "INIT_HASH"
             /\ attempts_counter' = attempts_counter + 2
             /\ nonce_0' = nonce_plus_1(nonce_0)]_vars

\* two unsuccessful passes of a session are behind: counter 4, nonce 3, and
\* the third pair of hashes is being judged
C31_Witness ==
  /\ fsm_state = "CHECK_RESULT"
  /\ attempts_counter = 4
  /\ nonce_0 = NonceOfInt(3)

\* ------------------------------------------------------------------------
\* 12. The outputs of the FSM (keccak_datapath_simd.py, lines 328-465;
\*     sha3_txpow_controller.py, lines 240-245)
\* ------------------------------------------------------------------------

\* C32: idle is asserted exactly in IDLE and running exactly in INIT_HASH,
\* ABSORB, PERMUTE and CHECK_RESULT; the two are never asserted together and
\* neither is asserted in DONE; found, timeout and no_attempts are non-zero
\* only in DONE.  Bits 0 and 1 of the status register carry idle and running
C32_OutputsFollowFsmState ==
  /\ idle <=> (fsm_state = "IDLE")
  /\ running <=> (fsm_state \in {"INIT_HASH", "ABSORB", "PERMUTE", "CHECK_RESULT"})
  /\ ~(idle /\ running)
  /\ (fsm_state = "DONE") => (~idle /\ ~running)
  /\ (found # 0 \/ timeout \/ no_attempts) => (fsm_state = "DONE")
  /\ status[1] = idle
  /\ status[2] = running

\* DONE after a find by lane B: found is 2, idle and running are low
C32_Witness ==
  /\ fsm_state = "DONE"
  /\ found = 2
  /\ ~idle
  /\ ~running

\* ------------------------------------------------------------------------
\* 13. The hash-result register (sha3_txpow_controller.py, lines 270-286)
\* ------------------------------------------------------------------------

\* digest of the lane the completion status names
winning_digest == IF completion_status = 1 THEN raw_hash_0 ELSE raw_hash_1

\* C33 as stated: in every cycle in which the status register shows Found
\* (completion status 1 or 2) the hash-result register holds the winning
\* lane's digest.  Violated in the first cycle of DONE: the register is
\* clocked from the completion status and follows it by one cycle
C33_HashResultHoldsWinnerInEveryFoundCycle ==
  (completion_status \in {1, 2}) => (last_hash = winning_digest)

\* C33, amended: a cycle in which the status register shows Found is
\* followed by a cycle in which the hash-result register holds the winning
\* lane's digest (lane A's for found-A, lane B's for found-B), and the lanes
\* keep that digest while Found is shown; so the register holds it in every
\* Found cycle but the first
C33_HashResultHoldsWinnerFromSecondFoundCycle ==
  [][(completion_status \in {1, 2}) =>
       /\ last_hash' = winning_digest
       /\ (completion_status' = completion_status) =>
            /\ state_0' = state_0
            /\ state_1' = state_1]_vars

\* second cycle of DONE after a find by lane B: the register holds lane B's
\* digest, which is not lane A's
C33_Witness ==
  /\ fsm_state = "DONE"
  /\ completion_status = 2
  /\ last_hash = raw_hash_1
  /\ raw_hash_1 # raw_hash_0

\* ------------------------------------------------------------------------
\* 14. The 64-bit timeout register against the limit of the search
\*     (sha3_txpow_controller.py, lines 74 and 231-235;
\*     keccak_datapath_simd.py, lines 47 and 415)
\* ------------------------------------------------------------------------

\* register values with and without bits above the low 32
TimeoutCsrValues == {timeout_csr(n, high) : n \in {0, 30}, high \in {0, 1}}

InitTimeoutCsr == InitWithTimeoutCsr({100}, {0, 300}, TimeoutCsrValues, {0})

SpecTimeoutCsr == InitTimeoutCsr /\ [][Next]_vars

\* the cycle counter has reached the number the register holds; a counter
\* of 32 bits is below every number with a bit above the low 32
counter_reaches_timeout_csr ==
  /\ \A j \in (TIMEOUT_LIMIT_BYTES + 1)..TIMEOUT_CSR_BYTES : timeout_storage[j] = 0
  /\ timeout_counter >= bytes_value(SubSeq(timeout_storage, 1, TIMEOUT_LIMIT_BYTES))

\* C34: the cycle timeout is disabled if and only if the value written to
\* the 64-bit timeout register is 0, and every nonzero value is the cycle
\* limit the search uses: a CHECK_RESULT takes the timeout branch exactly
\* when the register is nonzero and the cycle counter has reached the
\* register's value
C34_TimeoutRegisterIsTheLimit ==
  [][/\ (timeout_limit = 0) <=> (timeout_storage = Zeros(TIMEOUT_CSR_BYTES))
     /\ (fsm_state = "CHECK_RESULT") =>
          (timeout_fired <=>
             (timeout_storage # Zeros(TIMEOUT_CSR_BYTES) /\ counter_reaches_timeout_csr))]_vars

\* ------------------------------------------------------------------------
\* 15. Rho and pi of the core against the reference's tables
\*     (keccak_core.py, lines 76-92; utils.py, lines 18-24;
\*     VerificationTest/sha3_function.py, lines 36-45)
\* ------------------------------------------------------------------------

\* the lane the reference's loop holds in t when it runs step i (1..24)
keccakf_sw_rho_pi_source(i) == IF i = 1 THEN 1 ELSE keccakf_sw_piln[i - 1]

\* where the reference sends lane src_idx and by how much it rotates it:
\* lane 0 is not touched by the loop
keccakf_sw_rho_pi_dest(src_idx) ==
  IF src_idx = 0 THEN 0
  ELSE keccakf_sw_piln[CHOOSE i \in 1..24 : keccakf_sw_rho_pi_source(i) = src_idx]

keccakf_sw_rho_pi_rotation(src_idx) ==
  IF src_idx = 0 THEN 0
  ELSE keccakf_sw_rotc[CHOOSE i \in 1..24 : keccakf_sw_rho_pi_source(i) = src_idx]

\* C35: rho's offset table with pi's mapping (x,y) -> (y,(2x+3y) mod 5)
\* sends each of the 25 lanes to the same position, rotated by the same
\* amount, as the reference's Rho and Pi tables; pi is a bijection on the
\* 25 positions; and in every PERMUTE cycle each lane of both cores' theta
\* output arrives, rotated by that amount, at that position of pi's output
C35_RhoPiMatchesReferenceTables ==
  /\ \A src_idx \in LaneIndex :
        /\ pi_dest_idx(src_idx) \in LaneIndex
        /\ pi_dest_idx(src_idx) = keccakf_sw_rho_pi_dest(src_idx)
        /\ rho_offset(src_idx) = keccakf_sw_rho_pi_rotation(src_idx)
  /\ \A dest_idx \in LaneIndex :
        Cardinality({src_idx \in LaneIndex : pi_dest_idx(src_idx) = dest_idx}) = 1
  /\ (fsm_state = "PERMUTE") =>
       \A st \in {state_0, state_1} :
         LET t == theta_out(st)
             p == pi_out(rho_out(t))
         IN \A src_idx \in LaneIndex :
              p[keccakf_sw_rho_pi_dest(src_idx)]
                = rol64_sw(t[src_idx], keccakf_sw_rho_pi_rotation(src_idx))

\* a PERMUTE cycle past round 0 in which lane 1 of theta's output is not
\* its own rotation by one: position 10 of pi's output holds it rotated
C35_Witness ==
  /\ fsm_state = "PERMUTE"
  /\ round_index > 0
  /\ LET t == theta_out(state_0)
     IN /\ rol64(t[1], 1) # t[1]
        /\ pi_out(rho_out(t))[10] = rol64(t[1], 1)

\* ------------------------------------------------------------------------
\* 16. Loading the header (sha3_txpow_controller.py, lines 137-228)
\* ------------------------------------------------------------------------
\* words the DMA source delivers between two clearings of the write pointer
MaxDmaWords == 2

\* what the host writes through the register window, and where: the first
\* word of the store (which the DMA path writes as well), the last one and
\* the first address behind it
HeaderWindowAddrs == {0, HEADER_WORDS - 1, HEADER_WORDS}
HeaderWindowWords == {400}
\* words the DMA source delivers
DmaSourceWords == {500}

\* the DMA source is a stream: a word it offers stays until it is accepted,
\* and it gets words to offer only while the DMA is enabled
dma_source_valid_next ==
  IF dma_source_valid /\ ~dma_source_ready THEN {TRUE}
  ELSE IF dma_enable /\ dma_write_addr_next < MaxDmaWords THEN BOOLEAN
  ELSE {FALSE}

\* the host and the DMA source drive the write side in any order; the data
\* of the source is read only while it is valid and the window only while
\* the write enable is set, so they rest at 0 otherwise
HostLoadsHeader ==
  /\ dma_enable' \in BOOLEAN
  /\ dma_source_valid' \in dma_source_valid_next
  /\ dma_source_data' \in (IF dma_source_valid' THEN DmaSourceWords ELSE {0})
  /\ header_we' \in BOOLEAN
  /\ header_addr' \in (IF header_we' THEN HeaderWindowAddrs ELSE {0})
  /\ combined_header' \in (IF header_we' THEN HeaderWindowWords ELSE {0})

\* a clock edge with the FSM resting in IDLE, start low
LoadHeader ==
  /\ fsm_state = "IDLE"
  /\ ~start
  /\ block_addr' = 0
  /\ fsm_state' = idle_next_state
  /\ UNCHANGED <<completion_status, timeout_counter, attempts_counter, nonce_0,
                 nonce_1, loop_counter, round_index, nonce_result, state_0, state_1>>
  /\ ReadPipeline
  /\ last_hash' = last_hash_next
  /\ UNCHANGED config
  /\ HeaderWriteLogic
  /\ HostLoadsHeader
  /\ start' = FALSE
  /\ stop' = FALSE

InitLoad == InitWith({300}, {0}, {0}, {0})

SpecLoad == InitLoad /\ [][LoadHeader]_vars

\* the bank rows a write at address a selects
bank_rows_of(a) ==
  {<<k, bank_write_port_adr(k, a)>> : k \in {b \in 0..(RATE_WORDS - 1) : a \in addresses_for_bank_k(b)}}

\* every address of the store selects one bank row, and no two the same
bank_rows_distinct ==
  /\ \A a \in 0..(HEADER_WORDS - 1) : Cardinality(bank_rows_of(a)) = 1
  /\ Cardinality(UNION {bank_rows_of(a) : a \in 0..(HEADER_WORDS - 1)}) = HEADER_WORDS

\* C36: a 64-bit word written at linear word address a, 0 <= a < 272, is
\* word (a mod 17) of the block presented for block index (a div 17) from
\* the next cycle on, until a write hits the same address: each clock edge
\* sets the presented word of the written address to the written data and
\* keeps the word of every other address; distinct addresses never select
\* the same bank row
C36_HeaderStoreRoundTrip ==
  [][/\ bank_rows_distinct
     /\ \A written \in {IF write_enable THEN write_addr ELSE HEADER_WORDS} :
        \A data \in {write_data} :
        \A b \in 0..(MAX_BLOCKS - 1) :
        \A before \in {ReadBanks(mem_banks, b)} :
        \A after \in {ReadBanks(mem_banks', b)} :
        \A i \in 0..(RATE_WORDS - 1) :
          IF written = RATE_WORDS * b + i
            THEN after[i + 1] = data
            ELSE after[i + 1] = before[i + 1]]_vars

\* the last word of the store was written through the register window and
\* a DMA word at address 1: block 15 presents the one as its word 16, block
\* 0 the other as its word 1, also on the datapath's input, and word 2 of
\* block 0 is as it was
C36_Witness ==
  /\ ReadBanks(mem_banks, MAX_BLOCKS - 1)[RATE_WORDS] = 400
  /\ ReadBanks(mem_banks, 0)[2] = 500
  /\ ReadBanks(mem_banks, 0)[3] = 2
  /\ header_data[2] = 500

\* the clock edge writes data at address addr and nothing else: no word when
\* addr lies behind the store
store_written_once(addr, data) ==
  \A b \in 0..(MAX_BLOCKS - 1) :
  \A before \in {ReadBanks(mem_banks, b)} :
  \A after \in {ReadBanks(mem_banks', b)} :
  \A i \in 0..(RATE_WORDS - 1) :
    IF addr = RATE_WORDS * b + i
      THEN after[i + 1] = data
      ELSE after[i + 1] = before[i + 1]

\* C37: when a DMA word is accepted (valid and ready) in a cycle in which
\* the register interface's write enable is set, the store is written once,
\* at the DMA write address with the DMA data, and the register interface's
\* word is not written; that word is written in a cycle without a DMA
\* handshake in which the write enable is set; with neither, nothing is
\* written
C37_DmaWriteHasPriority ==
  [][/\ (dma_source_valid /\ dma_source_ready /\ header_we) =>
          store_written_once(dma_write_addr, dma_source_data)
     /\ (~(dma_source_valid /\ dma_source_ready) /\ header_we) =>
          store_written_once(header_addr, combined_header)
     /\ (~(dma_source_valid /\ dma_source_ready) /\ ~header_we) =>
          mem_banks' = mem_banks]_vars

\* a DMA word is being accepted at address 1 while the write enable is set
\* for the last word of the store, which still holds its old word; the DMA
\* path has written address 0 before
C37_Witness ==
  /\ dma_source_valid /\ dma_source_ready
  /\ header_we
  /\ header_addr = HEADER_WORDS - 1
  /\ dma_write_addr = 1
  /\ ReadBanks(mem_banks, 0)[1] = 500
  /\ ReadBanks(mem_banks, MAX_BLOCKS - 1)[RATE_WORDS] = HEADER_WORDS - 1

\* C38: after each rising edge of the DMA enable the n-th DMA word accepted
\* is written to header word address n.  Edge by edge: a word accepted in
\* the cycle of the rising edge is written at address 0 and leaves the
\* pointer at 1; a rising edge without a handshake leaves the pointer at 0;
\* in every other cycle an accepted word is written at the pointer, which
\* advances by one, and the pointer rests when no word is accepted
C38_DmaWordsWrittenInOrder ==
  [][/\ (dma_enable_rising /\ dma_source_valid /\ dma_source_ready) =>
          /\ write_addr = 0
          /\ dma_write_addr' = 1
     /\ (dma_enable_rising /\ ~(dma_source_valid /\ dma_source_ready)) =>
          dma_write_addr' = 0
     /\ (~dma_enable_rising /\ dma_source_valid /\ dma_source_ready) =>
          /\ write_enable
          /\ write_addr = dma_write_addr
          /\ dma_write_addr' = dma_write_addr + 1
     /\ (~dma_enable_rising /\ ~(dma_source_valid /\ dma_source_ready)) =>
          dma_write_addr' = dma_write_addr]_vars

\* ------------------------------------------------------------------------
\* 17. Block address and loop counter (keccak_datapath_simd.py, lines 78-84
\*     and 379-405)
\* ------------------------------------------------------------------------

\* C39: in every ABSORB cycle the block address equals the loop counter, in
\* every state both are below total_blocks, and at CHECK_RESULT the block
\* address is total_blocks - 1
C39_BlockAddrFollowsLoopCounter ==
  /\ (fsm_state = "ABSORB") => (block_addr = loop_counter)
  /\ block_addr < total_blocks
  /\ loop_counter < total_blocks
  /\ (fsm_state = "CHECK_RESULT") => (block_addr = total_blocks - 1)

====
